---------------------------- MODULE Spec2Model ----------------------------
(***************************************************************************)
(* Model of ZSXQToWordpress: the content processor (content_processor.py), *)
(* the sync state store (sync_state.py) and the sync orchestrator          *)
(* (zsxq_to_wordpress.py).                                                 *)
(*                                                                         *)
(* Text is a sequence of tokens.  A token is one character, written as a   *)
(* TLA+ string, or one inline tag of the source platform:                  *)
(*   "a" "b" "c"      word characters (\w)                                 *)
(*   " " "\n"         whitespace (\s)                                      *)
(*   ":" "-" "." "*" "~"   ASCII punctuation                               *)
(*   "fcolon" "fcomma" "dun" "fdash"   the full-width colon, comma,        *)
(*                    enumeration comma and dash                           *)
(*   "fstop" "fbang" "fques"   the full-width full stop, exclamation mark  *)
(*                    and question mark                                    *)
(*   "ellipsis"       the one-character horizontal ellipsis                *)
(*   "<bold:a>"       the tag <e type="text_bold" title="a" />             *)
(*   "<code:>"        the tag <e type="text_code" title="" />, which is    *)
(*                    matched by _re_text_generic only                     *)
(* Every character token has length 1, as len() counts code points.        *)
(***************************************************************************)
EXTENDS Integers, Sequences, FiniteSets, TLC

\* ------------------------------------------------------------------ bounds
MaxBodyLen == 4
MaxLineLen == 81
MaxTopics == 3
MaxRuns == 2
MaxWorkers == 2
MaxDepth == 3
MaxImages == 3
MaxRecords == 12
MaxSource == 52
MaxRetries == 4

\* ------------------------------------------------------- character classes
Whitespace == {" ", "\n"}
WordChars == {"a", "b", "c", "e", "t", "y", "p", "x", "_", "o", "l", "d", "i"}
TerminalPunct == {"fstop", "fbang", "fques", "fcomma", "dun"}
SentenceEnd == {"fstop", "fbang", "fques"}
Breakpoints == <<"fcolon", ":", "fcomma", "dun", " ", "-", "fdash">>
CutStripChars == {"fcolon", ":", " "}
EllipsisChars == {"ellipsis", "."}
BoldTags == {"<bold:a>", "<bold:b>"}
EmptyTitleTags == {"<code:>"}

\* title attribute of a text_bold tag (group 1 of _re_text_bold)
TagTitle(tok) == IF tok = "<bold:a>" THEN <<"a">> ELSE <<"b">>

\* what _re_punctuation leaves of the raw tag  <e type="text_bold" title="a" />
TagResidue(tok) ==
  <<"e", " ", "t", "y", "p", "e", "t", "e", "x", "t", "_", "b", "o", "l", "d",
    " ", "t", "i", "t", "l", "e">> \o TagTitle(tok) \o <<" ">>

\* what _re_punctuation leaves of the raw tag  <e type="text_code" title="" />
EmptyTagResidue ==
  <<"e", " ", "t", "y", "p", "e", "t", "e", "x", "t", "_", "c", "o", "d", "e",
    " ", "t", "i", "t", "l", "e", " ">>

\* --------------------------------------------------------- str primitives
RECURSIVE LStrip(_)
LStrip(s) == IF s # <<>> /\ Head(s) \in Whitespace THEN LStrip(Tail(s)) ELSE s

RECURSIVE RStripSet(_, _)
RStripSet(s, cs) ==
  IF s # <<>> /\ s[Len(s)] \in cs THEN RStripSet(SubSeq(s, 1, Len(s) - 1), cs) ELSE s

Strip(s) == RStripSet(LStrip(s), Whitespace)

RECURSIVE SplitOn(_, _)
SplitOn(s, seps) ==
  IF \E i \in 1..Len(s) : s[i] \in seps
  THEN LET i == CHOOSE k \in 1..Len(s) :
                  s[k] \in seps /\ \A j \in 1..(k - 1) : s[j] \notin seps
       IN <<SubSeq(s, 1, i - 1)>> \o SplitOn(SubSeq(s, i + 1, Len(s)), seps)
  ELSE <<s>>

RECURSIVE JoinLines(_)
JoinLines(ls) ==
  IF ls = <<>> THEN <<>>
  ELSE IF Len(ls) = 1 THEN ls[1]
  ELSE ls[1] \o <<"\n">> \o JoinLines(Tail(ls))

StartsWith(s, p) == Len(p) <= Len(s) /\ SubSeq(s, 1, Len(p)) = p

EndsWithAny(s, cs) == s # <<>> /\ s[Len(s)] \in cs

\* str.find(c, start): 0-based index of the first c at or after start, else -1
Find(s, c, start) ==
  IF \E i \in start..(Len(s) - 1) : s[i + 1] = c
  THEN CHOOSE i \in start..(Len(s) - 1) :
         s[i + 1] = c /\ \A j \in start..(i - 1) : s[j + 1] # c
  ELSE -1

\* s[:n]
Prefix(s, n) == SubSeq(s, 1, IF n < Len(s) THEN n ELSE Len(s))

\* the sequences ss[1], ..., ss[Len(ss)] joined in order, computed by halves
RECURSIVE Flatten(_)
Flatten(ss) ==
  IF Len(ss) = 0 THEN <<>>
  ELSE IF Len(ss) = 1 THEN ss[1]
  ELSE LET half == Len(ss) \div 2
       IN Flatten(SubSeq(ss, 1, half)) \o Flatten(SubSeq(ss, half + 1, Len(ss)))

\* re.sub(r'\s+', ' ', s): the first character of a whitespace run becomes
\* the space, the others of the run disappear
CollapseWs(s) ==
  LET Sub(i) == IF s[i] \notin Whitespace THEN <<s[i]>>
                ELSE IF i = 1 \/ s[i - 1] \notin Whitespace THEN <<" ">>
                ELSE <<>>
  IN Flatten([i \in 1..Len(s) |-> Sub(i)])

\* _re_punctuation.sub('', s): drops everything that is not \w or \s
StripPunct(s) ==
  LET Sub(tok) == IF tok \in BoldTags THEN TagResidue(tok)
                  ELSE IF tok \in EmptyTitleTags THEN EmptyTagResidue
                  ELSE IF tok \in WordChars \cup Whitespace THEN <<tok>>
                  ELSE <<>>
  IN Flatten([i \in 1..Len(s) |-> Sub(s[i])])

\* ------------------------------------------------------ parse_datetime_safe
(* A create_time string is one of                                          *)
(*   ""            empty or missing                                        *)
(*   "iso"         2024-01-15T10:00:00                                     *)
(*   "isoZ"        ... with a trailing Z                                   *)
(*   "iso+0800"    ... with an offset without colon                        *)
(*   "iso+08:00"   ... with an offset with colon                           *)
(*   "bad"         text that datetime.fromisoformat rejects                *)
(*   "badZ"        such text with a trailing Z                             *)
TimeStrings == {"", "iso", "isoZ", "iso+0800", "iso+08:00", "bad", "badZ"}

\* lines 27-28: a trailing Z becomes +00:00
ReplaceZ(ts) ==
  CASE ts = "isoZ" -> "iso+00:00"
    [] ts = "badZ" -> "bad+00:00"
    [] OTHER -> ts

\* lines 32-38: an offset +HHMM becomes +HH:MM
NormalizeTz(ts) == IF ts = "iso+0800" THEN "iso+08:00" ELSE ts

\* line 41: datetime.fromisoformat
FromIsoFormatOk(ts) == ts \in {"iso", "iso+08:00", "iso+00:00"}

\* TRUE iff parse_datetime_safe returns a datetime, FALSE iff it raises ValueError
ParseDatetimeSafeOk(ts) ==
  IF ts = "" THEN FALSE ELSE FromIsoFormatOk(NormalizeTz(ReplaceZ(ts)))

\* ------------------------------------------------------------ source topics
(* A topic is a record                                                     *)
(*   topic_id     the source id                                            *)
(*   type         "talk", "q&a-question", "q&a-answer", "article", or      *)
(*                "missing" when the key is absent                         *)
(*   payload      function from the nested keys that are present           *)
(*                ("talk", "question", "answer", "content") to their text  *)
(*   title        content.title, <<>> when absent or empty                 *)
(*   article      talk.article is present and non-empty                    *)
(*   create_time  a time string                                            *)
(*   images       the nested dict/list data of the record that may hold    *)
(*                images, as a tree (see _extract_images below)            *)
(*   digested     the record is marked featured                            *)
(*   sticky       the record is marked pinned                              *)
(*   column       the value of '_column_name', "" when absent or empty     *)
TypeOr(topic, default) == IF topic.type = "missing" THEN default ELSE topic.type

\* the if/elif chain that picks the text body (lines 159-167, 407-416)
TextKey(topic) ==
  LET tt == TypeOr(topic, "")
      ks == DOMAIN topic.payload
  IN CASE tt = "talk" /\ "talk" \in ks -> "talk"
       [] tt = "q&a-question" /\ "question" \in ks -> "question"
       [] tt = "q&a-answer" /\ "answer" \in ks -> "answer"
       [] "content" \in ks /\ ~(tt = "talk" /\ "talk" \in ks)
            /\ ~(tt = "q&a-question" /\ "question" \in ks)
            /\ ~(tt = "q&a-answer" /\ "answer" \in ks) -> "content"
       [] OTHER -> "none"

TopicText(topic) == IF TextKey(topic) = "none" THEN <<>> ELSE topic.payload[TextKey(topic)]

DetermineContentType(topic) ==
  LET tt == TypeOr(topic, "talk")
  IN IF tt = "talk" /\ "talk" \in DOMAIN topic.payload
     THEN (IF topic.article THEN "article" ELSE "short_content")
     ELSE IF tt \in {"q&a-question", "q&a-answer"} THEN "article"
     ELSE IF tt = "article" THEN "article"
     ELSE "short_content"

\* ----------------------------------------------------------- nested data
(* The nested data of a record is a tree of tagged values:                 *)
(*   Str(s)       a string                                                 *)
(*   Num          a value that is neither a string, a list nor a dict      *)
(*   List(items)  a list                                                   *)
(*   Dict(items)  a dict, as the sequence of its (key, value) pairs in     *)
(*                insertion order; the keys of one dict are distinct       *)
Str(s) == [t |-> "str", s |-> s]
Num == [t |-> "num"]
List(items) == [t |-> "list", items |-> items]
Dict(items) == [t |-> "dict", items |-> items]
Pair(key, val) == [key |-> key, val |-> val]

\* a record without nested data
NoData == Dict(<<>>)

\* key in data
HasKey(data, key) == \E i \in 1..Len(data.items) : data.items[i].key = key

\* data[key]
Get(data, key) == data.items[CHOOSE i \in 1..Len(data.items) : data.items[i].key = key].val

\* ---------------------------------------------------------- _extract_images
\* img.startswith('http'): the strings of RelativeUrls do not
RelativeUrls == {"rel"}
StartsWithHttp(s) == s \notin RelativeUrls

\* mutant of Sizes: original preferred to large
SizesMut == <<"original", "large", "thumbnail">>

\* line 754: the size variants in the order of preference
Sizes == <<"large", "original", "thumbnail">>

\* lines 752-766: what one element of an images list appends
ImageUrl(img) ==
  IF img.t = "dict"
  THEN LET hit(size) == /\ HasKey(img, size)
                        /\ Get(img, size).t = "dict"
                        /\ HasKey(Get(img, size), "url")
           found == SelectSeq(Sizes, hit)
       IN IF found # <<>> THEN <<Get(Get(img, found[1]), "url").s>>
          ELSE IF HasKey(img, "url") THEN <<Get(img, "url").s>>
          ELSE <<>>
  ELSE IF img.t = "str" /\ StartsWithHttp(img.s) THEN <<img.s>>
  ELSE <<>>

RECURSIVE ImageUrls(_)
ImageUrls(images_data) ==
  IF images_data = <<>> THEN <<>>
  ELSE ImageUrl(Head(images_data)) \o ImageUrls(Tail(images_data))

\* lines 748-766: the images list of this level, when there is one
OwnImages(data) ==
  IF HasKey(data, "images") /\ Get(data, "images").t = "list"
  THEN ImageUrls(Get(data, "images").items)
  ELSE <<>>

\* mutant of Searched: only dicts are searched
SearchedMut(pair) == pair.key # "images" /\ pair.val.t \in {"dict"}

\* line 770: the fields of a dict that the search goes into
Searched(pair) == pair.key # "images" /\ pair.val.t \in {"dict", "list"}

\* extract_image_urls(data), lines 743-776
RECURSIVE ExtractImageUrls(_), ExtractFromAll(_)
ExtractFromAll(values) ==
  IF values = <<>> THEN <<>>
  ELSE ExtractImageUrls(Head(values)) \o ExtractFromAll(Tail(values))

ExtractImageUrls(data) ==
  IF data.t = "dict"
  THEN LET fields == SelectSeq(data.items, Searched)
       IN OwnImages(data) \o ExtractFromAll([i \in 1..Len(fields) |-> fields[i].val])
  ELSE IF data.t = "list" THEN ExtractFromAll(data.items)
  ELSE <<>>

\* _extract_images, lines 729-780: the search starts at the record itself
ExtractImages(topic) == ExtractImageUrls(topic.images)

\* an image dict with one size variant
SizedImage(size, url) == Dict(<<Pair(size, Dict(<<Pair("url", Str(url))>>))>>)

\* the nested data of a talk with the given images
TalkImages(images_data) ==
  Dict(<<Pair("talk", Dict(<<Pair("images", List(images_data))>>))>>)

\* ------------------------------------------------------------- _extract_tags
(* Hashtags in a text:                                                     *)
(*   "#" "a" "#"     the plain form #a#                                    *)
(*   "<hashtag>"     <e type="hashtag" hid="1">#a#</e>                     *)
(*   "<hashtag:b>"   <e type="hashtag" hid="2" title="%23b%23" />          *)
(* A tag is the sequence of its characters.  "featured" is the one token   *)
(* that stands for the word of the fixed featured tag.                     *)
FeaturedTag == <<"featured">>
MarkupTokens == {"<hashtag>", "<hashtag:b>", "<mention>", "<web>", "<bold:a>", "<bold:b>",
                 "<code:>"}

\* lines 811-818: _re_hashtag_html, unquote, strip('#')
HtmlTags(text) == IF \E i \in 1..Len(text) : text[i] = "<hashtag:b>" THEN {<<"b">>} ELSE {}

\* lines 821-823: _re_hashtag_plain.findall, the matches of #([^#\s]+)#
\* (the scan goes on from the first '#' that is left in the text)
RECURSIVE PlainTags(_)
PlainTags(text) ==
  LET opens == {i \in 1..Len(text) : text[i] \in {"#", "<hashtag>"}}
      open == CHOOSE i \in opens : \A j \in opens : i <= j
      rest == SubSeq(text, open + 1, Len(text))
      stops == {i \in 1..Len(rest) :
                  rest[i] \in {"#"} \cup Whitespace \cup MarkupTokens}
      stop == IF stops = {} THEN 0
              ELSE CHOOSE i \in stops : \A j \in stops : i <= j
  IN IF opens = {} THEN {}
     ELSE IF text[open] = "<hashtag>" THEN {<<"a">>} \cup PlainTags(rest)
     ELSE IF stop > 1 /\ rest[stop] = "#"
          THEN {SubSeq(rest, 1, stop - 1)}
               \cup PlainTags(SubSeq(rest, stop + 1, Len(rest)))
          ELSE PlainTags(rest)

\* _extract_tags, lines 782-832: the set of the tags (list(set(tags)))
ExtractTags(topic) ==
  LET text_content == TopicText(topic)
  IN IF text_content = <<>> THEN {}
     ELSE HtmlTags(text_content) \cup PlainTags(text_content)
          \cup (IF topic.digested THEN {FeaturedTag} ELSE {})

\* ------------------------------------------------------ _determine_categories
\* special_categories and the default categories of the configuration
DigestedCategory == "digested_category"
StickyCategory == "sticky_category"
ArticleDefaultCategory == "article_default"
TopicDefaultCategory == "topic_default"

\* line 850: hasattr(topic, '_column_name') on a dict, whose keys are no attributes
HasAttrColumnName(topic) == FALSE

\* lines 849-854
ColumnCategories(topic, config) ==
  IF config.enable_column_mapping /\ HasAttrColumnName(topic)
  THEN <<topic.column>>
  ELSE IF topic.column # "" THEN <<topic.column>>
  ELSE <<>>

\* lines 857-863
SpecialCategories(topic) ==
  (IF topic.digested THEN <<DigestedCategory>> ELSE <<>>)
  \o (IF topic.sticky THEN <<StickyCategory>> ELSE <<>>)

\* lines 866-874
DefaultCategory(topic) ==
  IF DetermineContentType(topic) = "article" THEN ArticleDefaultCategory
  ELSE TopicDefaultCategory

\* mutant of NoCategories: the default is added to a single category too
NoCategoriesMut(categories) == Len(categories) <= 1

\* line 877: not categories
NoCategories(categories) == categories = <<>>

DetermineCategories(topic, config) ==
  LET categories == ColumnCategories(topic, config) \o SpecialCategories(topic)
  IN IF NoCategories(categories) THEN Append(categories, DefaultCategory(topic))
     ELSE categories

\* ---------------------------------------------------------- markup passes
ProcessZsxqTags(s) ==
  LET Sub(tok) == IF tok \in BoldTags
                  THEN <<"*", "*">> \o TagTitle(tok) \o <<"*", "*">>
                  ELSE IF tok \in EmptyTitleTags THEN <<>>
                  ELSE <<tok>>
  IN Flatten([i \in 1..Len(s) |-> Sub(s[i])])

\* "footer" stands for one match of a footer pattern without its trailing \s*
\* (the whitespace that follows a match goes with it)
DropFooters(s) ==
  LET Trailing(i) == /\ s[i] \in Whitespace
                     /\ \E j \in 1..(i - 1) :
                          s[j] = "footer" /\ \A m \in (j + 1)..i : s[m] \in Whitespace
      Sub(i) == IF s[i] = "footer" \/ Trailing(i) THEN <<>> ELSE <<s[i]>>
  IN Flatten([i \in 1..Len(s) |-> Sub(i)])

RemoveZsxqFooter(s) == IF s = <<>> THEN s ELSE RStripSet(DropFooters(s), Whitespace)

\* ------------------------------------------------------------- _generate_title
PlaceholderTitle == <<"no_title">>
DateTitle == <<"date_share">>
WholeLimit == 50
LineLimit == 80
CutFrom == 20
CutTo == 45
DefaultCut == 30
SentenceLimit == 50
TruncateLen == 30

\* lines 434-440: the first breakpoint kind, in list order, whose first
\* occurrence at or after offset 20 lies in 20..45 decides the cut
RECURSIVE BestCutFrom(_, _)
BestCutFrom(first_line, k) ==
  IF k > Len(Breakpoints) THEN DefaultCut
  ELSE LET pos == Find(first_line, Breakpoints[k], CutFrom)
       IN IF CutFrom <= pos /\ pos <= CutTo THEN pos + 1
          ELSE BestCutFrom(first_line, k + 1)

BestCut(first_line) == BestCutFrom(first_line, 1)

\* mutant of UsedWhole: the length test off by one
UsedWholeMut(first_line) == Len(first_line) <= WholeLimit + 1

\* line 432: the first line is used whole up to this length
UsedWhole(first_line) == Len(first_line) <= WholeLimit

\* lines 430-444: the title made from the processed first line
FirstLineTitle(first_line) ==
  IF UsedWhole(first_line) THEN first_line
  ELSE RStripSet(Prefix(first_line, BestCut(first_line)), CutStripChars) \o <<"ellipsis">>

\* lines 450-476: the title when the first line is not title material
FallbackTitle(topic, text, tsl) ==
  LET clean_text == Strip(CollapseWs(text))
      sentences == SplitOn(clean_text, SentenceEnd)
      first_sentence == Strip(sentences[1])
  IN IF clean_text # <<>>
     THEN IF sentences[1] # <<>> /\ Len(first_sentence) <= SentenceLimit
          THEN [title |-> first_sentence, tsl |-> <<>>, path |-> "sentence", raised |-> FALSE]
          ELSE [title |-> IF Len(clean_text) > TruncateLen
                          THEN Prefix(clean_text, TruncateLen) \o <<"ellipsis">>
                          ELSE clean_text,
                tsl |-> <<>>, path |-> "truncate", raised |-> FALSE]
     ELSE IF topic.create_time # ""
          THEN IF ParseDatetimeSafeOk(topic.create_time)
               THEN [title |-> DateTitle, tsl |-> <<>>, path |-> "time", raised |-> FALSE]
               ELSE [title |-> <<>>, tsl |-> tsl, path |-> "error", raised |-> TRUE]
          ELSE [title |-> PlaceholderTitle, tsl |-> <<>>, path |-> "placeholder",
                raised |-> FALSE]

(* _generate_title(topic) on a processor whose _title_source_line is tsl   *)
(* (<<>> for unset or None).  Result: the title, the attribute afterwards, *)
(* the branch taken, and whether ValueError was raised.                    *)
GenerateTitle(topic, tsl) ==
  LET text == TopicText(topic)
      lines == SplitOn(Strip(text), {"\n"})
      first_line == ProcessZsxqTags(Strip(lines[1]))
  IN IF TextKey(topic) = "content" /\ topic.title # <<>>
     THEN [title |-> topic.title, tsl |-> tsl, path |-> "explicit", raised |-> FALSE]
     ELSE IF lines[1] # <<>> /\ Len(first_line) <= LineLimit
             /\ ~EndsWithAny(first_line, TerminalPunct)
          THEN [title |-> FirstLineTitle(first_line), tsl |-> Strip(lines[1]),
                path |-> IF UsedWhole(first_line) THEN "first_whole" ELSE "first_cut",
                raised |-> FALSE]
          ELSE FallbackTitle(topic, text, tsl)

\* ------------------------------------------------- _remove_title_duplication
ExactMatch(first_line, title) == StartsWith(first_line, RStripSet(title, EllipsisChars))

TruncatedMatch(first_line, title) ==
  LET clean_title == RStripSet(title, EllipsisChars)
  IN StartsWith(first_line, clean_title) /\ Len(clean_title) >= 10

FuzzyMatch(first_line, title) ==
  LET title_clean == StripPunct(RStripSet(title, EllipsisChars))
      first_line_clean == StripPunct(first_line)
  IN title_clean # <<>> /\ StartsWith(first_line_clean, title_clean)
     /\ Len(title_clean) >= 8

\* mutant of SourceLineMatch: the recorded source line is not consulted
SourceLineMatchMut(first_line, tsl) == FALSE

\* lines 563-565: the recorded source line, read from the instance attribute
SourceLineMatch(first_line, tsl) == tsl # <<>> /\ first_line = tsl

IsTitleDuplicate(first_line, title, tsl) ==
  \/ SourceLineMatch(first_line, tsl)
  \/ ExactMatch(first_line, title)
  \/ TruncatedMatch(first_line, title)
  \/ FuzzyMatch(first_line, title)

RemoveTitleDuplication(text, title, tsl) ==
  LET lines == SplitOn(Strip(text), {"\n"})
  IN IF text = <<>> \/ title = <<>> THEN text
     ELSE IF lines[1] = <<>> THEN text
     ELSE IF IsTitleDuplicate(Strip(lines[1]), title, tsl)
          THEN Strip(JoinLines(Tail(lines)))
          ELSE text

\* ------------------------------------------------ format_article_with_images
\* dict.get(original_url, original_url) on the relay map
RelayedUrl(processed_images, url) ==
  IF url \in DOMAIN processed_images THEN processed_images[url] ELSE url

RECURSIVE ImageHtml(_, _)
ImageHtml(images, processed_images) ==
  IF images = <<>> THEN <<>>
  ELSE <<"<img", RelayedUrl(processed_images, Head(images)), ">">>
       \o (IF Len(images) > 1 THEN <<"\n">> ELSE <<>>)
       \o ImageHtml(Tail(images), processed_images)

(* format_article_with_images(article, processed_images): the final body,  *)
(* or raised = TRUE when parse_datetime_safe raises ValueError (line 912). *)
FormatArticleWithImages(article, processed_images) ==
  LET withImages == IF article.images # <<>>
                    THEN article.content \o <<"\n", "\n">>
                         \o ImageHtml(article.images, processed_images)
                    ELSE article.content
  IN IF article.create_time = ""
     THEN [content |-> withImages, raised |-> FALSE]
     ELSE IF ParseDatetimeSafeOk(article.create_time)
          THEN [content |-> withImages \o <<"\n", "\n", "<p-source>", "time_str", "</p>">>,
                raised |-> FALSE]
          ELSE [content |-> <<>>, raised |-> TRUE]

\* ------------------------------------------------------------ body markup
(* Inline tags other than text_bold, each one token:                       *)
(*   "<mention>"  <e type="mention" ...>@a</e>     becomes  @a             *)
(*   "<hashtag>"  <e type="hashtag" ...>#a#</e>    becomes  #a#            *)
(*   "<web>"      <e type="web" href="u" title="a"/>  becomes an anchor    *)
InlinePasses(s) ==
  LET Sub(tok) == CASE tok = "<mention>" -> <<"@", "a">>
                    [] tok = "<hashtag>" -> <<"#", "a", "#">>
                    [] tok = "<web>" -> <<"<a href=u>", "a", "</a>">>
                    [] OTHER -> <<tok>>
  IN Flatten([i \in 1..Len(s) |-> Sub(s[i])])

\* str.split('\n\n')
RECURSIVE SplitParagraphs(_)
SplitParagraphs(s) ==
  IF \E i \in 1..(Len(s) - 1) : s[i] = "\n" /\ s[i + 1] = "\n"
  THEN LET i == CHOOSE k \in 1..(Len(s) - 1) :
                  /\ s[k] = "\n" /\ s[k + 1] = "\n"
                  /\ \A j \in 1..(k - 1) : ~(s[j] = "\n" /\ s[j + 1] = "\n")
       IN <<SubSeq(s, 1, i - 1)>> \o SplitParagraphs(SubSeq(s, i + 2, Len(s)))
  ELSE <<s>>

\* para.replace('\n', '<br>\n')
BreakLines(s) ==
  LET Sub(tok) == IF tok = "\n" THEN <<"<br>", "\n">> ELSE <<tok>>
  IN Flatten([i \in 1..Len(s) |-> Sub(s[i])])

\* lines 512-522: wrap every non-empty paragraph, join with blank lines
RECURSIVE FormatParagraphs(_)
FormatParagraphs(paras) ==
  IF paras = <<>> THEN <<>>
  ELSE LET para == Strip(Head(paras))
           rest == FormatParagraphs(Tail(paras))
       IN IF para = <<>> THEN rest
          ELSE <<"<p>">> \o BreakLines(para) \o <<"</p>">>
               \o (IF rest = <<>> THEN <<>> ELSE <<"\n", "\n">> \o rest)

(* _process_content(text, title) on a processor whose _title_source_line   *)
(* is tsl when _is_title_duplicate reads it.                               *)
ProcessContent(text, title, tsl) ==
  IF text = <<>> THEN <<>>
  ELSE CHOOSE processed \in
         {FormatParagraphs(paragraphs) :
            paragraphs \in {SplitParagraphs(inlined) :
              inlined \in {InlinePasses(tagged) :
                tagged \in {ProcessZsxqTags(unfooted) :
                  unfooted \in {RemoveZsxqFooter(deduped) :
                    deduped \in {RemoveTitleDuplication(text, title, tsl)}}}}}} : TRUE

\* ------------------------------------------------------- short-form content
TitlePrefix == <<"[", "t", "]">>
MaxTitleLength == 30
TopicPlaceholder == <<"no_title_topic">>
TopicNoContent == <<"no_content">>
TopicDate == <<"date_time">>

\* _re_html_tags.sub('', s): every <...> tag disappears
StripHtmlTags(s) ==
  LET Sub(tok) == IF tok \in BoldTags \cup EmptyTitleTags \cup {"<web>", "<hashtag:b>"}
                  THEN <<>>
                  ELSE IF tok = "<mention>" THEN <<"@", "a">>
                  ELSE IF tok = "<hashtag>" THEN <<"#", "a", "#">>
                  ELSE <<tok>>
  IN Flatten([i \in 1..Len(s) |-> Sub(s[i])])

\* _generate_topic_title: the title, or raised = TRUE on ValueError (line 352)
GenerateTopicTitle(topic, text_content) ==
  LET clean_text == Strip(CollapseWs(StripHtmlTags(text_content)))
      cut == RStripSet(Prefix(clean_text, MaxTitleLength), Whitespace)
  IN IF clean_text # <<>>
     THEN [title |-> TitlePrefix \o <<" ">> \o
                     (IF Len(clean_text) <= MaxTitleLength THEN clean_text
                      ELSE IF EndsWithAny(cut, TerminalPunct) THEN cut
                      ELSE cut \o <<"ellipsis">>),
           raised |-> FALSE]
     ELSE IF topic.create_time # ""
          THEN IF ParseDatetimeSafeOk(topic.create_time)
               THEN [title |-> TitlePrefix \o <<" ">> \o TopicDate, raised |-> FALSE]
               ELSE [title |-> <<>>, raised |-> TRUE]
          ELSE [title |-> TitlePrefix \o <<" ">> \o TopicNoContent, raised |-> FALSE]

\* processed.replace('\n\n', '</p><p>').replace('\n', '<br>')
\* (a run of newlines is taken in pairs from its start; the one left over
\* by an odd run becomes the line break)
ShortBreaks(s) ==
  LET RunStart(i) == CHOOSE j \in 1..i :
                       /\ \A m \in j..i : s[m] = "\n"
                       /\ j = 1 \/ s[j - 1] # "\n"
      Sub(i) == IF s[i] # "\n" THEN <<s[i]>>
                ELSE IF (i - RunStart(i)) % 2 = 1 THEN <<>>
                ELSE IF i < Len(s) /\ s[i + 1] = "\n" THEN <<"</p>", "<p>">>
                ELSE <<"<br>">>
  IN Flatten([i \in 1..Len(s) |-> Sub(i)])

ProcessTopicText(text) ==
  LET processed == ShortBreaks(InlinePasses(RemoveZsxqFooter(text)))
  IN IF text = <<>> THEN <<>>
     ELSE IF processed # <<>> /\ Head(processed) # "<p>"
          THEN <<"<p>">> \o processed \o <<"</p>">>
          ELSE processed

\* -------------------------------------------------------------- process_topic
(* The configuration: sync_title and placeholder_title of article_settings *)
(* and of topic_settings, and enable_column_mapping of content_mapping.    *)
Configs ==
  {[article_sync_title |-> a, topic_sync_title |-> t, enable_column_mapping |-> e] :
     a \in BOOLEAN, t \in BOOLEAN, e \in BOOLEAN}

\* lines 169-182 (article) and 242-255 (short form): the title and, for the
\* article path with title sync, the write of _title_source_line
TitleStep(topic, config, tsl) ==
  IF DetermineContentType(topic) = "article"
  THEN IF config.article_sync_title
       THEN LET g == GenerateTitle(topic, tsl)
            IN [title |-> g.title, tsl |-> g.tsl, raised |-> g.raised]
       ELSE [title |-> PlaceholderTitle, tsl |-> tsl, raised |-> FALSE]
  ELSE IF config.topic_sync_title
       THEN LET g == GenerateTopicTitle(topic, TopicText(topic))
            IN [title |-> g.title, tsl |-> tsl, raised |-> g.raised]
       ELSE [title |-> TopicPlaceholder, tsl |-> tsl, raised |-> FALSE]

\* lines 184-217 (article) and 257-302 (short form): the body and the record
ContentStep(topic, config, title, tsl) ==
  LET ct == DetermineContentType(topic)
  IN [topic_id |-> topic.topic_id,
      title |-> title,
      content |-> IF ct = "article" THEN ProcessContent(TopicText(topic), title, tsl)
                  ELSE ProcessTopicText(TopicText(topic)),
      images |-> ExtractImages(topic),
      tags |-> ExtractTags(topic),
      categories |-> DetermineCategories(topic, config),
      create_time |-> topic.create_time,
      content_type |-> ct,
      sync_title_disabled |-> IF ct = "article" THEN ~config.article_sync_title
                              ELSE ~config.topic_sync_title,
      raised |-> FALSE]

RaisedRecord(topic) ==
  [topic_id |-> topic.topic_id, title |-> <<>>, content |-> <<>>, images |-> <<>>,
   tags |-> {}, categories |-> <<>>, create_time |-> topic.create_time,
   content_type |-> DetermineContentType(topic), sync_title_disabled |-> FALSE,
   raised |-> TRUE]

(* process_topic(topic) run without interruption on a processor whose      *)
(* _title_source_line is tsl: the output record and the attribute after it *)
ProcessTopic(topic, config, tsl) ==
  CHOOSE r \in
    {IF t.raised THEN [out |-> RaisedRecord(topic), tsl |-> t.tsl]
     ELSE [out |-> ContentStep(topic, config, t.title, t.tsl), tsl |-> t.tsl] :
       t \in {TitleStep(topic, config, tsl)}} : TRUE

\* ===================================================================== state
VARIABLES
  tCase,              \* text functions: the input drawn for this run
  tOut,               \* text functions: the results of the applications so far
  call,               \* client operations: the frame of the call in progress
  config,             \* ContentProcessor.config
  title_source_line,  \* ContentProcessor._title_source_line, <<>> = unset/None
  proc,               \* per calling thread: its process_topic call in progress
  synced_topics,      \* SyncState._state['synced_topics']
  last_sync_time,     \* SyncState._state['last_sync_time'], 0 = None
  files,              \* the state file and its temporary file on disk
  wp_posts,           \* the posts of the WordPress site, oldest first
  sync_lock,          \* holder of _sync_lock, "none" when free
  th,                 \* per thread: its sync_topic call in progress
  main,               \* the main thread of a sync run
  topics,             \* the records fetched for the run
  stats,              \* the counters of the run
  done,               \* indices of the futures that have completed
  sync_history,       \* SyncState._state['sync_history']
  clock               \* datetime.now(): the clock ticks when a process starts

textVars == <<tCase, tOut, call>>
procVars == <<config, title_source_line, proc>>
storeVars == <<synced_topics, last_sync_time, sync_history>>
syncVars == <<synced_topics, last_sync_time, files, wp_posts, sync_lock, th, main,
              topics, stats, done, sync_history, clock>>
vars == <<tCase, tOut, call, config, title_source_line, proc, synced_topics, last_sync_time,
          files, wp_posts, sync_lock, th, main, topics, stats, done, sync_history, clock>>

\* ------------------------------------------- the sync state before a run
StateFile == "sync_state.json"

TempFileMut == StateFile

\* save, line 74: the temporary file next to the state file
TempFile == "sync_state.json.tmp"

Paths == {StateFile, TempFile}
NoFile == [exists |-> FALSE, data |-> <<>>]

\* the state of _load_state when there is no state file (lines 40-44);
\* last_sync_time 0 is None
DefaultState == [synced_topics |-> <<>>, last_sync_time |-> 0, sync_history |-> <<>>]

\* the main thread before a process is started
IdleMain ==
  [pc |-> "fresh", i |-> 0, runs |-> 0, next |-> 0, cleared |-> FALSE,
   ret_ok |-> "none", ret_fail |-> "none", snap |-> DefaultState, prev |-> NoFile,
   saved |-> "none"]

NoHolder == 0
NoStats == [total |-> 0, success |-> 0, failed |-> 0, skipped |-> 0]

SyncIdle ==
  /\ synced_topics = <<>> /\ last_sync_time = 0 /\ sync_history = <<>>
  /\ files = [p \in Paths |-> NoFile]
  /\ wp_posts = <<>> /\ sync_lock = NoHolder /\ th = <<>>
  /\ main = IdleMain /\ topics = <<>> /\ stats = NoStats /\ done = {} /\ clock = 0

\* ------------------------------------------------------ inputs of SpecText
BodyAlphabet == {"a", "b", "\n"}

RECURSIVE SeqsUpTo(_, _)
SeqsUpTo(S, n) ==
  IF n = 0 THEN {<<>>}
  ELSE LET shorter == SeqsUpTo(S, n - 1)
       IN shorter \cup {Append(s, c) : s \in {x \in shorter : Len(x) = n - 1}, c \in S}

Bodies == SeqsUpTo(BodyAlphabet, MaxBodyLen)
DupTitles == {<<>>, <<"a">>, <<"b">>, <<"a", "b">>, <<"a", "ellipsis">>, <<"ellipsis">>}
DupSourceLines == {<<>>, <<"a">>, <<"b", "a">>}

\* a line of n characters: "a" everywhere but c1 at offset p1 and c2 at offset p2
LineOf(n, p1, c1, p2, c2) ==
  [i \in 1..n |-> IF i = p2 + 1 THEN c2 ELSE IF i = p1 + 1 THEN c1 ELSE "a"]

LineChars == {"a", "fcolon", ":", "fcomma", "dun", " ", "-", "fdash", "fstop"}
LineLens == {1, 50, 51, 66, 80, MaxLineLen}
LineOffsets == {0, 19, 20, 30, 44, 45, 46, 49}
Lines ==
  {LineOf(n, p1, c1, p2, c2) :
     n \in LineLens, p1 \in LineOffsets, c1 \in LineChars,
     p2 \in {20, 45, 46}, c2 \in LineChars}

ArticleTopic(text, ct) ==
  [topic_id |-> 1, type |-> "talk", payload |-> [talk |-> text], title |-> <<>>,
   article |-> TRUE, create_time |-> ct, images |-> NoData, digested |-> FALSE,
   sticky |-> FALSE, column |-> ""]

\* a record for the functions that read its kind, payloads and marks
MetaTopic(type, keys, text, title, article, ct, digested, sticky, column) ==
  [topic_id |-> 1, type |-> type, payload |-> [k \in keys |-> text], title |-> title,
   article |-> article, create_time |-> ct, images |-> NoData, digested |-> digested,
   sticky |-> sticky, column |-> column]

MetaTypes == {"talk", "q&a-question", "q&a-answer", "article", "task", "missing"}
PayloadKeys == {{}, {"talk"}, {"question"}, {"answer"}, {"content"}, {"talk", "content"}}

\* records with an explicit title: content.title is there with the content key
ExplicitTopics ==
  {tp \in {MetaTopic(ty, ks, <<"a", "\n", "b">>, <<"c">>, ar, "iso", FALSE, FALSE, "") :
     ty \in MetaTypes,
     ks \in {{"content"}, {"talk", "content"}, {"question", "content"},
             {"answer", "content"}},
     ar \in BOOLEAN} : tp.article => "talk" \in DOMAIN tp.payload}

TitleTopics ==
  {ArticleTopic(l, "iso") : l \in Lines}
  \cup {ArticleTopic(b, ct) : b \in {<<>>, <<" ">>, <<"a">>, <<"a", "fstop", "b">>},
                              ct \in TimeStrings}
  \cup ExplicitTopics

\* inputs of _determine_content_type and _determine_categories
TypeTopics ==
  {tp \in {MetaTopic(ty, ks, <<"a">>, <<>>, ar, "iso", FALSE, FALSE, "") :
             ty \in MetaTypes, ks \in PayloadKeys, ar \in BOOLEAN} :
     tp.article => "talk" \in DOMAIN tp.payload}

ColumnNames == {"", "column_name"}

CategoryTopics ==
  {[tp EXCEPT !.digested = d, !.sticky = st, !.column = c] :
     tp \in TypeTopics, d \in BOOLEAN, st \in BOOLEAN, c \in ColumnNames}

\* inputs of _extract_tags
TagTexts ==
  {<<>>, <<"a">>, <<"#", "a", "#">>, <<"#", "featured", "#">>, <<"<hashtag>">>,
   <<"<hashtag:b>", " ", "#", "a">>, <<"#", "a", "#", "b", "#">>,
   <<"#", "a", " ", "b", "#", "<hashtag>", "#", "b", "#">>}

TagTopics ==
  {MetaTopic(ty, ks, x, <<>>, FALSE, "iso", d, FALSE, "") :
     ty \in MetaTypes, ks \in PayloadKeys, x \in TagTexts, d \in BOOLEAN}

\* inputs of _extract_images: one element of an images list
SizeHows == {"absent", "url", "nourl", "str"}

SizeField(size, how, url) ==
  CASE how = "absent" -> <<>>
    [] how = "url" -> <<Pair(size, Dict(<<Pair("url", Str(url))>>))>>
    [] how = "nourl" -> <<Pair(size, Dict(<<>>))>>
    [] OTHER -> <<Pair(size, Str(url))>>

ImageDict(large, original, thumbnail, bare) ==
  Dict(SizeField("large", large, "uL") \o SizeField("original", original, "uO")
       \o SizeField("thumbnail", thumbnail, "uT")
       \o (IF bare THEN <<Pair("url", Str("uB"))>> ELSE <<>>))

ImageElements ==
  {ImageDict(l, o, t, b) : l \in SizeHows, o \in SizeHows, t \in SizeHows, b \in BOOLEAN}
  \cup {Str("u1"), Str("rel"), Num}

(* a dict level with its own images list and, when sib is not empty, a     *)
(* sibling field that holds an images list of its own; first names the key *)
(* that was inserted first                                                 *)
Level(own, sib, first) ==
  LET own_field == Pair("images", List(own))
      sibling_field == Pair("files", Dict(<<Pair("images", List(sib))>>))
  IN Dict(IF sib = <<>> THEN <<own_field>>
          ELSE IF first = "images" THEN <<own_field, sibling_field>>
          ELSE <<sibling_field, own_field>>)

\* the level put under a path of dict keys and list positions ("[]")
PathSteps == {"talk", "article", "images", "[]"}

Wrap(step, value) ==
  IF step = "[]" THEN List(<<value>>) ELSE Dict(<<Pair(step, value)>>)

RECURSIVE Nest(_, _)
Nest(path, leaf) ==
  IF path = <<>> THEN leaf ELSE Wrap(Head(path), Nest(Tail(path), leaf))

ImageCase(path, own, sib, first) ==
  [fn |-> "images", data |-> Nest(path, Level(own, sib, first)), path |-> path,
   own |-> own, sib |-> sib]

OwnLists ==
  {<<>>, <<Str("u1")>>, <<Str("u1"), SizedImage("large", "uL")>>, <<Str("u1"), Str("u1")>>,
   <<ImageDict("nourl", "url", "url", TRUE), Str("u1")>>}
SiblingLists == {<<>>, <<Str("u2")>>, <<Str("u1")>>}

ImageCases ==
  {ImageCase(<<>>, <<e>>, <<>>, "images") : e \in ImageElements}
  \cup {ImageCase(path, own, sib, first) :
          path \in SeqsUpTo(PathSteps, MaxDepth), own \in OwnLists,
          sib \in SiblingLists, first \in {"images", "files"}}

\* inputs of process_topic on a processor whose attribute is line
LongLine == LineOf(51, 30, " ", 46, "a")

ProcessTexts ==
  {<<>>, <<"a", "\n", "b">>, <<"<bold:a>", "\n", "b">>, <<"<code:>", "\n", "b">>,
   <<"<code:>">>, <<"<code:>", "<code:>", "\n", "\n", " ", "b">>,
   <<"a", "\n", " ", "b", "\n", "a">>, <<"a", "fstop", "\n", "b">>,
   LongLine \o <<"\n", "b">>}

ProcessTopics ==
  {MetaTopic(ty, ks, x, <<>>, "talk" \in ks, ct, FALSE, FALSE, "") :
     ty \in {"talk", "q&a-question", "article", "missing"},
     ks \in {{"talk"}, {"question"}, {"content"}},
     x \in ProcessTexts, ct \in {"iso", "bad"}}
  \cup {MetaTopic("article", {"content"}, x, <<"c">>, FALSE, "iso", FALSE, FALSE, "") :
          x \in ProcessTexts}
  \cup {ArticleTopic(b, "iso") : b \in Bodies}

ProcessConfigs == {c \in Configs : ~c.enable_column_mapping}

FormatArticles ==
  {[content |-> c, images |-> im, create_time |-> ct] :
     c \in {<<>>, <<"<p>", "a", "</p>">>}, im \in {<<>>, <<"u1">>, <<"u1", "u2">>},
     ct \in TimeStrings}
RelayMaps == {<<>>, [u \in {"u1"} |-> "q1"], [u \in {"u1", "u2"} |-> IF u = "u1" THEN "q1" ELSE u]}

NoTopic == ArticleTopic(<<>>, "")
NoArticle == [content |-> <<>>, images |-> <<>>, create_time |-> ""]

TextCase(fn, topic, text, title, line, article, relay) ==
  [fn |-> fn, topic |-> topic, text |-> text, title |-> title, line |-> line,
   article |-> article, relay |-> relay]

\* bodies of one line, with inline tags and the footer
NormalizeTexts ==
  SeqsUpTo({"a", " ", "<bold:a>", "<mention>", "<hashtag>", "<web>", "footer"}, 2)

\* short-form records and the topic_settings of content_mapping
PublishTopics ==
  {MetaTopic("talk", {"talk"}, x, <<>>, FALSE, ct, FALSE, FALSE, "") :
     x \in {<<>>, <<"a">>}, ct \in {"iso", "bad"}}
TopicSettings ==
  {[sync_title |-> s, placeholder_title |-> p] :
     s \in BOOLEAN, p \in {<<>>, <<" ">>, TopicPlaceholder}}

TextCases ==
  {TextCase("remove", NoTopic, b, t, l, NoArticle, <<>>) :
     b \in Bodies, t \in DupTitles, l \in DupSourceLines}
  \cup {TextCase("title", tp, <<>>, <<>>, l, NoArticle, <<>>) :
          tp \in TitleTopics, l \in {<<>>, <<"b">>}}
  \cup {TextCase("format", NoTopic, <<>>, <<>>, <<>>, ar, m) :
          ar \in FormatArticles, m \in RelayMaps}
  \cup {[fn |-> "type", topic |-> tp] : tp \in TypeTopics}
  \cup {[fn |-> "categories", topic |-> tp, config |-> c] :
          tp \in CategoryTopics, c \in Configs}
  \cup {[fn |-> "tags", topic |-> tp] : tp \in TagTopics}
  \cup ImageCases
  \cup {[fn |-> "process", topic |-> tp, config |-> c, line |-> l] :
          tp \in ProcessTopics, c \in ProcessConfigs, l \in {<<>>, <<"b">>}}
  \cup {[fn |-> "normalize", text |-> tx] : tx \in NormalizeTexts}
  \cup {[fn |-> "publish", topic |-> tp, topic_settings |-> ts] :
          tp \in PublishTopics, ts \in TopicSettings}

NoConfig ==
  [article_sync_title |-> TRUE, topic_sync_title |-> TRUE, enable_column_mapping |-> FALSE]
ProcIdle == /\ config = NoConfig /\ title_source_line = <<>> /\ proc = <<>>
\* no client operation has been called
NoCall == [op |-> "none"]

TextIdle == /\ tCase = TextCase("none", NoTopic, <<>>, <<>>, <<>>, NoArticle, <<>>)
            /\ tOut = <<>>
            /\ call = NoCall

TextInit == tCase \in TextCases /\ tOut = <<>> /\ call = NoCall /\ ProcIdle /\ SyncIdle

\* _remove_title_duplication applied to the body, then to its own output
ApplyRemove ==
  /\ tCase.fn = "remove"
  /\ Len(tOut) < 2
  /\ tOut' = Append(tOut, RemoveTitleDuplication(
                 IF tOut = <<>> THEN tCase.text ELSE tOut[Len(tOut)],
                 tCase.title, tCase.line))
  /\ UNCHANGED <<tCase, call, procVars, syncVars>>

ApplyGenerateTitle ==
  /\ tCase.fn = "title"
  /\ tOut = <<>>
  /\ tOut' = <<GenerateTitle(tCase.topic, tCase.line)>>
  /\ UNCHANGED <<tCase, call, procVars, syncVars>>

ApplyFormat ==
  /\ tCase.fn = "format"
  /\ tOut = <<>>
  /\ tOut' = <<FormatArticleWithImages(tCase.article, tCase.relay)>>
  /\ UNCHANGED <<tCase, call, procVars, syncVars>>

ApplyDetermineContentType ==
  /\ tCase.fn = "type"
  /\ tOut = <<>>
  /\ tOut' = <<DetermineContentType(tCase.topic)>>
  /\ UNCHANGED <<tCase, call, procVars, syncVars>>

ApplyDetermineCategories ==
  /\ tCase.fn = "categories"
  /\ tOut = <<>>
  /\ tOut' = <<DetermineCategories(tCase.topic, tCase.config)>>
  /\ UNCHANGED <<tCase, call, procVars, syncVars>>

ApplyExtractTags ==
  /\ tCase.fn = "tags"
  /\ tOut = <<>>
  /\ tOut' = <<ExtractTags(tCase.topic)>>
  /\ UNCHANGED <<tCase, call, procVars, syncVars>>

ApplyExtractImages ==
  /\ tCase.fn = "images"
  /\ tOut = <<>>
  /\ tOut' = <<ExtractImageUrls(tCase.data)>>
  /\ UNCHANGED <<tCase, call, procVars, syncVars>>

\* one process_topic call, not interleaved with another
ApplyProcessTopic ==
  /\ tCase.fn = "process"
  /\ tOut = <<>>
  /\ tOut' = <<ProcessTopic(tCase.topic, tCase.config, tCase.line)>>
  /\ UNCHANGED <<tCase, call, procVars, syncVars>>

\* the same text on the short-form path and, without a title, on the article path
ApplyNormalize ==
  /\ tCase.fn = "normalize"
  /\ tOut = <<>>
  /\ tOut' = <<[short |-> ProcessTopicText(tCase.text),
               article |-> ProcessContent(tCase.text, <<>>, <<>>)]>>
  /\ UNCHANGED <<tCase, call, procVars, syncVars>>


\* ------------------------------------------- process_topic on one processor
ProcTexts ==
  {<<>>, <<"a", "\n", "b">>, <<"b", "\n", "a">>, <<"<bold:a>", "\n", "b">>}

ProcTopics ==
  {[topic_id |-> 0, type |-> "talk", payload |-> [talk |-> x], title |-> <<>>,
    article |-> ar, create_time |-> ct, images |-> NoData, digested |-> FALSE,
    sticky |-> FALSE, column |-> ""] :
      x \in ProcTexts, ar \in BOOLEAN, ct \in {"iso", "bad"}}
  \cup {[topic_id |-> 0, type |-> "article", payload |-> [content |-> x],
         title |-> <<"c">>, article |-> FALSE, create_time |-> "iso", images |-> NoData,
         digested |-> FALSE, sticky |-> FALSE, column |-> ""] :
          x \in ProcTexts}

NoOutput == RaisedRecord(NoTopic)
IdleCall == [pc |-> "idle", topic |-> NoTopic, title |-> <<>>, out |-> NoOutput]

\* one processor, one caller: process_topic is called for one record after another
ProcInit ==
  /\ config \in Configs
  /\ title_source_line = <<>>
  /\ proc = [t \in {1} |-> IdleCall]
  /\ TextIdle
  /\ SyncIdle

\* one processor shared by two worker threads (sync_full_concurrent)
ProcConcInit ==
  /\ config \in Configs
  /\ title_source_line = <<>>
  /\ proc = [t \in {1, 2} |-> IdleCall]
  /\ TextIdle
  /\ SyncIdle

\* thread t enters process_topic with the record tp, whose id is id
EnterProcessTopic(t, tp, id) ==
  /\ proc' = [proc EXCEPT ![t] = [pc |-> "called", topic |-> [tp EXCEPT !.topic_id = id],
                                  title |-> <<>>, out |-> NoOutput]]
  /\ UNCHANGED <<config, title_source_line, textVars, syncVars>>

\* a worker thread is handed its record; thread t gets the record with id t
CallProcessTopic(t) ==
  /\ proc[t].pc = "idle"
  /\ \E tp \in ProcTopics : EnterProcessTopic(t, tp, t)

\* the single caller goes on to the next record of its batch
CallProcessTopicAgain(t) ==
  /\ proc[t].pc \in {"done", "raised"}
  /\ \E tp \in ProcTopics, id \in 1..MaxTopics : EnterProcessTopic(t, tp, id)

\* title synthesis: may write _title_source_line
DoTitleStep(t) ==
  /\ proc[t].pc = "called"
  /\ LET r == TitleStep(proc[t].topic, config, title_source_line)
     IN /\ title_source_line' = r.tsl
        /\ proc' = [proc EXCEPT ![t].pc = IF r.raised THEN "raised" ELSE "titled",
                                ![t].title = r.title,
                                ![t].out = IF r.raised THEN RaisedRecord(proc[t].topic)
                                           ELSE NoOutput]
  /\ UNCHANGED <<config, textVars, syncVars>>

\* body processing: _is_title_duplicate reads _title_source_line
DoContentStep(t) ==
  /\ proc[t].pc = "titled"
  /\ proc' = [proc EXCEPT ![t].pc = "done",
                          ![t].out = ContentStep(proc[t].topic, config, proc[t].title,
                                                 title_source_line)]
  /\ UNCHANGED <<config, title_source_line, textVars, syncVars>>

ProcNext ==
  \/ \E t \in DOMAIN proc : CallProcessTopic(t)
  \/ \E t \in DOMAIN proc : CallProcessTopicAgain(t)
  \/ \E t \in DOMAIN proc : DoTitleStep(t)
  \/ \E t \in DOMAIN proc : DoContentStep(t)

ProcConcNext ==
  \/ \E t \in DOMAIN proc : CallProcessTopic(t)
  \/ \E t \in DOMAIN proc : DoTitleStep(t)
  \/ \E t \in DOMAIN proc : DoContentStep(t)

SpecProc == ProcInit /\ [][ProcNext]_vars
SpecProcConc == ProcConcInit /\ [][ProcConcNext]_vars

\* =============================================================== sync state

IsSyncedMut(st, topic_id) == FALSE

IsSynced(st, topic_id) == topic_id \in DOMAIN st

MarkSynced(st, topic_id, wordpress_id, title, create_time, now) ==
  [k \in DOMAIN st \cup {topic_id} |->
     IF k = topic_id
     THEN [wordpress_id |-> wordpress_id, title |-> title,
           create_time |-> create_time, sync_time |-> now]
     ELSE st[k]]

HistoryLimit == 10

AddSyncRecordMut(history, record, now) ==
  LET h == Append(history, [stats |-> record, timestamp |-> now])
  IN IF Len(h) > HistoryLimit THEN SubSeq(h, 1, HistoryLimit) ELSE h

AddSyncRecord(history, record, now) ==
  LET h == Append(history, [stats |-> record, timestamp |-> now])
  IN IF Len(h) > HistoryLimit THEN SubSeq(h, Len(h) - HistoryLimit + 1, Len(h)) ELSE h

(* json.dump writes the state as a sequence of chunks: the opening brace,  *)
(* one chunk per entry of synced_topics, last_sync_time, sync_history and  *)
(* the closing brace.  A write that stops early leaves a proper prefix.    *)
Chunk(k, id, v) == [k |-> k, id |-> id, v |-> v]

\* sync_full and sync_full_concurrent save after every tenth record
SavePeriod == 10

\* the keys of the entries, which are str(topic_id), in the order of the ids
KeysInOrder(S) ==
  SelectSeq([i \in 1..(MaxTopics + SavePeriod + 2) |-> ToString(i)], LAMBDA k : k \in S)

JsonDump(state) ==
  LET keys == KeysInOrder(DOMAIN state.synced_topics)
  IN <<Chunk("open", "{", [n |-> 0])>>
     \o [i \in 1..Len(keys) |-> Chunk("topic", keys[i], state.synced_topics[keys[i]])]
     \o <<Chunk("last", "last_sync_time", [n |-> state.last_sync_time]),
          Chunk("history", "sync_history", [h |-> state.sync_history]),
          Chunk("close", "}", [n |-> 0])>>

\* json.load succeeds on a complete document only
JsonValid(data) ==
  /\ Len(data) >= 2
  /\ data[1].k = "open"
  /\ data[Len(data)].k = "close"

JsonLoad(data) ==
  LET at(kind) == {i \in 1..Len(data) : data[i].k = kind}
      ids == {data[i].id : i \in at("topic")}
  IN [synced_topics |->
        IF ids = {} THEN <<>>
        ELSE [key \in ids |-> data[CHOOSE i \in at("topic") : data[i].id = key].v],
      last_sync_time |->
        IF at("last") = {} THEN 0 ELSE data[CHOOSE i \in at("last") : TRUE].v.n,
      sync_history |->
        IF at("history") = {} THEN <<>> ELSE data[CHOOSE i \in at("history") : TRUE].v.h]

\* _load_state: ok = FALSE when it raises SyncStateError
LoadState(file) ==
  IF ~file.exists THEN [ok |-> TRUE, state |-> DefaultState]
  ELSE IF JsonValid(file.data) THEN [ok |-> TRUE, state |-> JsonLoad(file.data)]
  ELSE [ok |-> FALSE, state |-> DefaultState]

\* os.replace(src, dst)
Replace(fs, src, dst) ==
  IF src = dst THEN fs ELSE [fs EXCEPT ![dst] = fs[src], ![src] = NoFile]

CurrentState ==
  [synced_topics |-> synced_topics, last_sync_time |-> last_sync_time,
   sync_history |-> sync_history]

\* ---------------------------------------------------------------- WordPress
RecentLimit == 100

\* post_exists without an error: the title is among the most recent posts
PostExists(posts, title) ==
  \E i \in 1..Len(posts) : i > Len(posts) - RecentLimit /\ posts[i].title = title

ArticleDateTitle == <<"article_date">>
UntitledArticle == <<"untitled_article">>
MomentDateTitle == <<"moment_date">>
UntitledMoment == <<"untitled_moment">>

\* datetime.fromisoformat(create_time.replace('Z', '+00:00')) succeeds
WpDateOk(ts) == FromIsoFormatOk(ReplaceZ(ts))

CreateArticleTitle(article_data) ==
  IF Strip(article_data.title) = <<>>
  THEN IF article_data.create_time # "" /\ WpDateOk(article_data.create_time)
       THEN ArticleDateTitle ELSE UntitledArticle
  ELSE article_data.title

CreateTopicTitle(content_data) ==
  LET sync_title_disabled ==
        IF "_sync_title_disabled" \in DOMAIN content_data
        THEN content_data["_sync_title_disabled"] ELSE FALSE
  IN IF Strip(content_data.title) = <<>>
     THEN IF ~sync_title_disabled
          THEN IF content_data.create_time # "" /\ WpDateOk(content_data.create_time)
               THEN MomentDateTitle ELSE UntitledMoment
          ELSE <<" ">>
     ELSE content_data.title

\* sync_topic lines 251-273: the record handed to the WordPress client
ArticleForWp(article, final_content) ==
  [title |-> article.title, content |-> final_content,
   categories |-> article.categories, tags |-> article.tags,
   content_type |-> IF article.content_type = "short_content" THEN "topic" ELSE "article",
   create_time |-> article.create_time]

(* create_post, lines 233-261: post.terms_names of the post handed to      *)
(* NewPost.  A fresh WordPressPost has no terms_names; NoTerms stands for  *)
(* the empty dict.                                                         *)
NoTerms == [category |-> <<>>, post_tag |-> {}]

\* lines 241-243: post.terms_names['category'] = categories
SetCategories(terms_names, categories) == [terms_names EXCEPT !.category = categories]

\* lines 259-261: post.terms_names = {'post_tag': tags}
SetTags(terms_names, tags) == [category |-> <<>>, post_tag |-> tags]

TermsNames(categories, tags) ==
  LET after_categories == IF categories # <<>> THEN SetCategories(NoTerms, categories)
                          ELSE NoTerms
  IN IF tags # {} THEN SetTags(after_categories, tags) ELSE after_categories

\* the post that _create_topic / _create_article hand to create_post
NewPost(article_for_wp, source_id) ==
  IF article_for_wp.content_type = "topic"
  THEN [title |-> CreateTopicTitle(article_for_wp),
        content |-> <<"<div moment>">> \o article_for_wp.content \o <<"</div>">>,
        terms_names |-> TermsNames(article_for_wp.categories, article_for_wp.tags),
        source |-> source_id]
  ELSE [title |-> CreateArticleTitle(article_for_wp),
        content |-> article_for_wp.content,
        terms_names |-> TermsNames(article_for_wp.categories, article_for_wp.tags),
        source |-> source_id]

\* ------------------------------------------------------------- image relay
Relayed(url) == IF url = "u1" THEN "q1" ELSE "q2"

Range(f) == {f[i] : i \in DOMAIN f}

(* what sync_topic gets for processed_images (lines 233-241): {} when the  *)
(* record has no image or no uploader is configured, and otherwise the map *)
(* of process_images_batch, which sends a URL to itself when its relay     *)
(* failed.                                                                 *)
RelayOutcomes(images) ==
  IF images = <<>> THEN {<<>>}
  ELSE {<<>>} \cup {[u \in Range(images) |-> IF u \in okset THEN Relayed(u) ELSE u] :
                      okset \in SUBSET Range(images)}

\* --------------------------------------------------------------- sync_topic
Key(topic) == ToString(topic.topic_id)

\* ------------------------------ the text functions and the published post
\* _process_topic lines 242-255 with the configured placeholder_title
TopicSettingsTitle(topic, topic_settings) ==
  IF topic_settings.sync_title
  THEN LET g == GenerateTopicTitle(topic, TopicText(topic))
       IN [title |-> g.title, raised |-> g.raised]
  ELSE [title |-> topic_settings.placeholder_title, raised |-> FALSE]

(* sync_topic on a site without posts, for a short-form record without     *)
(* images: the record of process_topic, the final content and the post     *)
(* that _create_topic hands to create_post.                                *)
PublishShort(topic, topic_settings) ==
  LET t == TopicSettingsTitle(topic, topic_settings)
      article == ContentStep(topic,
                             [NoConfig EXCEPT !.topic_sync_title = topic_settings.sync_title],
                             t.title, <<>>)
      final == FormatArticleWithImages(article, <<>>)
  IN [article |-> article,
      raised |-> t.raised \/ final.raised,
      post |-> NewPost(ArticleForWp(article, final.content), Key(topic))]

ApplyPublish ==
  /\ tCase.fn = "publish"
  /\ tOut = <<>>
  /\ tOut' = <<PublishShort(tCase.topic, tCase.topic_settings)>>
  /\ UNCHANGED <<tCase, call, procVars, syncVars>>

TextNext ==
  \/ ApplyRemove
  \/ ApplyGenerateTitle
  \/ ApplyFormat
  \/ ApplyDetermineContentType
  \/ ApplyDetermineCategories
  \/ ApplyExtractTags
  \/ ApplyExtractImages
  \/ ApplyProcessTopic
  \/ ApplyNormalize
  \/ ApplyPublish

SpecText == TextInit /\ [][TextNext]_vars

IdleThread ==
  [pc |-> "idle", idx |-> 0, topic |-> NoTopic, article |-> NoOutput, final |-> <<>>,
   wp_id |-> "", result |-> FALSE, detail |-> "none", failed_at |-> "none",
   relay_failed |-> FALSE, synced_at_entry |-> FALSE]

\* the frame of a call sync_topic(topic) or sync_topic_safe(topic, stats)
NewCall(pc, idx, topic) == [IdleThread EXCEPT !.pc = pc, !.idx = idx, !.topic = topic]

DetailOutcomes == {"ok", "empty", "raise"}

HandlerResultMut == TRUE

\* lines 287-289: the value sync_topic returns from its exception handler
HandlerResult == FALSE

\* lines 172-177
\* sync_title is True when the configuration does not set it (lines 170, 243),
\* enable_column_mapping is False then (content_processor.py line 849)
DefaultConfig ==
  [article_sync_title |-> TRUE, topic_sync_title |-> TRUE, enable_column_mapping |-> FALSE]

SyncTopicCheck(t) ==
  /\ th[t].pc = "st_check"
  /\ LET synced == IsSynced(synced_topics, Key(th[t].topic))
     IN th' = [th EXCEPT ![t].pc = IF synced THEN "st_return" ELSE "st_detail",
                         ![t].synced_at_entry = synced,
                         ![t].result = FALSE]
  /\ UNCHANGED <<textVars, procVars, storeVars, files, wp_posts, sync_lock, main, topics,
                 stats, done, clock>>

(* lines 181-207: for an article the detail is fetched, with retries; when *)
(* every attempt raises or the detail is empty the record of the list is   *)
(* kept.                                                                   *)
SyncTopicDetail(t) ==
  /\ th[t].pc = "st_detail"
  /\ \E o \in DetailOutcomes :
       th' = [th EXCEPT ![t].pc = "st_process",
                        ![t].detail = IF DetermineContentType(th[t].topic) = "article"
                                      THEN o ELSE "skipped"]
  /\ UNCHANGED <<textVars, procVars, storeVars, files, wp_posts, sync_lock, main, topics,
                 stats, done, clock>>

\* lines 213-218: the category_override of the sync target replaces the categories
ApplyCategoryOverride(article, topic) ==
  IF topic.category_override # ""
  THEN [article EXCEPT !.categories = <<topic.category_override>>]
  ELSE article

\* lines 210-218: process_topic on the shared processor, then the override
SyncTopicProcess(t) ==
  /\ th[t].pc = "st_process"
  /\ LET r == ProcessTopic(th[t].topic, config, title_source_line)
     IN /\ title_source_line' = r.tsl
        /\ th' = IF r.out.raised
                 THEN [th EXCEPT ![t].pc = "st_return", ![t].failed_at = "transform",
                                 ![t].result = HandlerResult]
                 ELSE [th EXCEPT ![t].pc = "st_exists",
                                 ![t].article = ApplyCategoryOverride(r.out, th[t].topic)]
  /\ UNCHANGED <<textVars, config, proc, storeVars, files, wp_posts, sync_lock, main,
                 topics, stats, done, clock>>

\* line 221: post_exists, which answers False when the request fails
SyncTopicExists(t) ==
  /\ th[t].pc = "st_exists"
  /\ \E err \in BOOLEAN :
       th' = [th EXCEPT ![t].pc =
                IF ~err /\ PostExists(wp_posts, th[t].article.title)
                THEN "st_duplicate" ELSE "st_images"]
  /\ UNCHANGED <<textVars, procVars, storeVars, files, wp_posts, sync_lock, main, topics,
                 stats, done, clock>>

\* lines 224-230
SyncTopicMarkDuplicate(t) ==
  /\ th[t].pc = "st_duplicate"
  /\ synced_topics' = MarkSynced(synced_topics, Key(th[t].topic), "duplicate",
                                 th[t].article.title, th[t].article.create_time, clock)
  /\ clock' = clock
  /\ th' = [th EXCEPT ![t].pc = "st_return", ![t].result = FALSE]
  /\ UNCHANGED <<textVars, procVars, last_sync_time, sync_history, files, wp_posts,
                 sync_lock, main, topics, stats, done>>

\* lines 233-246: image relay and format_article_with_images
SyncTopicImages(t) ==
  /\ th[t].pc = "st_images"
  /\ \E processed_images \in RelayOutcomes(th[t].article.images) :
       LET f == FormatArticleWithImages(th[t].article, processed_images)
           relay_failed == \E u \in DOMAIN processed_images : processed_images[u] = u
       IN th' = IF f.raised
                THEN [th EXCEPT ![t].pc = "st_return", ![t].failed_at = "finalize",
                                ![t].relay_failed = relay_failed,
                                ![t].result = HandlerResult]
                ELSE [th EXCEPT ![t].pc = "st_publish", ![t].final = f.content,
                                ![t].relay_failed = relay_failed]
  /\ UNCHANGED <<textVars, procVars, storeVars, files, wp_posts, sync_lock, main, topics,
                 stats, done, clock>>

\* lines 249-274: _create_topic or _create_article, which may raise
SyncTopicPublish(t) ==
  /\ th[t].pc = "st_publish"
  /\ \E ok \in BOOLEAN :
       IF ok
       THEN /\ wp_posts' = Append(wp_posts,
                                  NewPost(ArticleForWp(th[t].article, th[t].final),
                                          Key(th[t].topic)))
            /\ th' = [th EXCEPT ![t].pc = "st_mark",
                                ![t].wp_id = ToString(Len(wp_posts) + 1)]
       ELSE /\ wp_posts' = wp_posts
            /\ th' = [th EXCEPT ![t].pc = "st_return", ![t].failed_at = "publish",
                                ![t].result = HandlerResult]
  /\ UNCHANGED <<textVars, procVars, storeVars, files, sync_lock, main, topics, stats,
                 done, clock>>

\* lines 277-285
SyncTopicMark(t) ==
  /\ th[t].pc = "st_mark"
  /\ synced_topics' = MarkSynced(synced_topics, Key(th[t].topic), th[t].wp_id,
                                 th[t].article.title, th[t].article.create_time, clock)
  /\ clock' = clock
  /\ th' = [th EXCEPT ![t].pc = "st_return", ![t].result = TRUE]
  /\ UNCHANGED <<textVars, procVars, last_sync_time, sync_history, files, wp_posts,
                 sync_lock, main, topics, stats, done>>

\* ------------------------------------------------- _fetch_all_target_topics
(* The records of the source platform.  Record i has id i:                 *)
(*   1         an article with one image, marked featured                  *)
(*   2         a short talk whose create_time cannot be parsed             *)
(*   3         an article without text whose create_time cannot be parsed  *)
(*   4, 5, ..  a short talk, all with the same text                        *)
Catalog(i) ==
  LET kind == IF i < 4 THEN i ELSE 4
  IN [topic_id |-> i, type |-> "talk",
      payload |-> [talk |-> CASE kind = 1 -> <<"a", "\n", "b">>
                              [] kind = 2 -> <<"b">>
                              [] kind = 3 -> <<>>
                              [] OTHER -> <<"a">>],
      title |-> <<>>,
      article |-> kind \in {1, 3},
      create_time |-> IF kind \in {2, 3} THEN "bad" ELSE "iso",
      images |-> IF kind = 1 THEN TalkImages(<<SizedImage("large", "u1")>>) ELSE NoData,
      digested |-> kind = 1,
      sticky |-> FALSE,
      column |-> "",
      category_override |-> ""]

\* two enabled sync targets: a scope with every record, a column with the
\* records of odd id
TargetAll(n) == [i \in 1..n |-> Catalog(i)]
ColumnCategory == "column_category"
TargetColumn(n) ==
  [i \in 1..((n + 1) \div 2) |->
     [Catalog(2 * i - 1) EXCEPT !.category_override = ColumnCategory]]

\* lines 335-340: a record whose id was seen already is dropped
Dedup(list) ==
  LET first(i) == \A j \in 1..(i - 1) : Key(list[j]) # Key(list[i])
      kept == SelectSeq([i \in 1..Len(list) |-> i], first)
  IN [n \in 1..Len(kept) |-> list[kept[n]]]

\* the order of the create_time strings under string comparison
TimeRank(ts) ==
  CASE ts = "" -> 0
    [] ts = "iso" -> 1
    [] ts = "iso+0800" -> 2
    [] ts = "iso+08:00" -> 3
    [] ts = "isoZ" -> 4
    [] ts = "bad" -> 5
    [] OTHER -> 6

\* line 349: list.sort by create_time, reverse=True, which is stable
RECURSIVE SortFrom(_, _)
SortFrom(list, rank) ==
  IF rank < 0 THEN <<>>
  ELSE SelectSeq(list, LAMBDA x : TimeRank(x.create_time) = rank)
       \o SortFrom(list, rank - 1)

FetchAllTargetTopics(from_all, from_column) ==
  SortFrom(Dedup(from_all \o from_column), 6)

\* full sync: a target gives its whole list, or nothing when its request fails
FullFetches ==
  {FetchAllTargetTopics(a, c) :
     a \in {TargetAll(MaxTopics), <<>>}, c \in {TargetColumn(MaxTopics), <<>>}}

\* incremental sync: a target's list stops at the first record that is not
\* newer than the last sync time, so that the newest k records are in reach
IncrementalFetches ==
  UNION {{FetchAllTargetTopics(a, c) :
            a \in {TargetAll(k), <<>>}, c \in {TargetColumn(k), <<>>}} :
         k \in 0..MaxTopics}

\* --------------------------------------------------------------------- save

\* the main thread calls SyncState.save(); control goes to ret_ok when it
\* returns and to ret_fail when it raises SyncStateError
EnterSave(m, ret_ok, ret_fail) ==
  [m EXCEPT !.pc = "save_open", !.ret_ok = ret_ok, !.ret_fail = ret_fail,
            !.prev = files[StateFile], !.saved = "none"]

\* line 75: open(temp_file, 'w') truncates the temporary file
SaveOpen ==
  /\ main.pc = "save_open"
  /\ \E ok \in BOOLEAN :
       IF ok
       THEN /\ files' = [files EXCEPT ![TempFile] = [exists |-> TRUE, data |-> <<>>]]
            /\ main' = [main EXCEPT !.pc = "save_dump", !.snap = CurrentState]
       ELSE /\ files' = files
            /\ main' = [main EXCEPT !.pc = main.ret_fail, !.saved = "failed"]
  /\ UNCHANGED <<textVars, procVars, storeVars, wp_posts, sync_lock, th, topics, stats,
                 done, clock>>

(* line 76: json.dump(self._state, f).  The document is the state as it    *)
(* was when the dump began or, if another thread wrote the state since, as *)
(* it is now; the dump may stop early (an I/O error, or the RuntimeError   *)
(* of a dictionary that changed size while it was iterated).               *)
\* where a dump that fails stops: before the first chunk, or before the
\* closing brace
DumpStops(doc) == {0, Len(doc) - 1}

SaveDump ==
  /\ main.pc = "save_dump"
  /\ \E doc \in {JsonDump(main.snap), JsonDump(CurrentState)} :
       \E k \in DumpStops(doc) \cup {Len(doc)} :
         /\ files' = [files EXCEPT ![TempFile] = [exists |-> TRUE, data |-> SubSeq(doc, 1, k)]]
         /\ main' = IF k = Len(doc)
                    THEN [main EXCEPT !.pc = "save_replace"]
                    ELSE [main EXCEPT !.pc = main.ret_fail, !.saved = "failed"]
  /\ UNCHANGED <<textVars, procVars, storeVars, wp_posts, sync_lock, th, topics, stats,
                 done, clock>>

\* line 79: os.replace(temp_file, self.state_file)
SaveReplace ==
  /\ main.pc = "save_replace"
  /\ \E ok \in BOOLEAN :
       IF ok
       THEN /\ files' = Replace(files, TempFile, StateFile)
            /\ main' = [main EXCEPT !.pc = main.ret_ok, !.saved = "ok"]
       ELSE /\ files' = files
            /\ main' = [main EXCEPT !.pc = main.ret_fail, !.saved = "failed"]
  /\ UNCHANGED <<textVars, procVars, storeVars, wp_posts, sync_lock, th, topics, stats,
                 done, clock>>

\* ---------------------------------------- sequential sync: one run a process

Init ==
  /\ TextIdle
  /\ config = DefaultConfig
  /\ title_source_line = <<>>
  /\ proc = <<>>
  /\ synced_topics = <<>> /\ last_sync_time = 0 /\ sync_history = <<>>
  /\ files = [p \in Paths |-> NoFile]
  /\ wp_posts = <<>>
  /\ sync_lock = NoHolder
  /\ th = [t \in {1} |-> IdleThread]
  /\ main = IdleMain
  /\ topics = <<>> /\ stats = NoStats /\ done = {} /\ clock = 0

(* main(): a process is started; ZsxqToWordPressSync.__init__ builds a new *)
(* ContentProcessor and a SyncState that loads the state file.  The memory *)
(* of the process before it is gone.                                       *)
Construct ==
  /\ main.pc \in {"fresh", "done", "crashed"}
  /\ main.runs < MaxRuns
  /\ LET l == LoadState(files[StateFile])
     IN /\ synced_topics' = l.state.synced_topics
        /\ last_sync_time' = l.state.last_sync_time
        /\ sync_history' = l.state.sync_history
        /\ main' = [IdleMain EXCEPT !.pc = IF l.ok THEN "ready" ELSE "crashed",
                                    !.runs = main.runs + 1]
  /\ title_source_line' = <<>>
  /\ th' = [t \in DOMAIN th |-> IdleThread]
  /\ topics' = <<>> /\ stats' = NoStats
  /\ clock' = clock + 1
  /\ UNCHANGED <<textVars, config, proc, files, wp_posts, sync_lock, done>>

\* SyncState.clear_all
ClearAll ==
  /\ main.pc = "ready"
  /\ ~main.cleared
  /\ synced_topics' = <<>> /\ last_sync_time' = 0 /\ sync_history' = <<>>
  /\ main' = [main EXCEPT !.cleared = TRUE]
  /\ UNCHANGED <<textVars, procVars, files, wp_posts, sync_lock, th, topics, stats, done,
                 clock>>

\* the loop of sync_full and of sync_incremental begins on the fetched list
BeginLoop(fetched) ==
  /\ topics' = fetched
  /\ stats' = [NoStats EXCEPT !.total = Len(fetched)]
  /\ main' = [main EXCEPT !.pc = "loop", !.i = 0]
  /\ UNCHANGED <<textVars, procVars, storeVars, files, wp_posts, sync_lock, th, done,
                 clock>>

\* sync_full, lines 353-369; sync_incremental falls back to it when there is
\* no last sync time (lines 408-411)
StartSyncFull ==
  /\ main.pc = "ready"
  /\ \E fetched \in FullFetches : BeginLoop(fetched)

\* sync_incremental, lines 403-433: it returns at once when nothing is new
StartSyncIncremental ==
  /\ main.pc = "ready"
  /\ last_sync_time # 0
  /\ \E fetched \in IncrementalFetches :
       IF fetched = <<>>
       THEN /\ main' = [main EXCEPT !.pc = "done"]
            /\ UNCHANGED <<textVars, procVars, storeVars, files, wp_posts, sync_lock, th,
                           topics, stats, done, clock>>
       ELSE BeginLoop(fetched)

\* lines 372-375: the next record is handed to sync_topic
MainCallSyncTopic ==
  /\ main.pc = "loop"
  /\ th[1].pc = "idle"
  /\ main.i < stats.total
  /\ main' = [main EXCEPT !.i = main.i + 1, !.saved = "none"]
  /\ th' = [th EXCEPT ![1] = NewCall("st_check", main.i + 1, topics[main.i + 1])]
  /\ UNCHANGED <<textVars, procVars, storeVars, files, wp_posts, sync_lock, topics, stats,
                 done, clock>>

CountedOnceMut(st, result, synced) ==
  IF result THEN [st EXCEPT !.success = st.success + 1]
  ELSE IF synced THEN st
  ELSE [st EXCEPT !.failed = st.failed + 1]

CountedMut(st, result, synced) ==
  IF result THEN [st EXCEPT !.success = st.success + 1]
  ELSE [st EXCEPT !.failed = st.failed + 1]

\* lines 376-381 and 491-498: the counter that gets the record
Counted(st, result, synced) ==
  IF result THEN [st EXCEPT !.success = st.success + 1]
  ELSE IF synced THEN [st EXCEPT !.skipped = st.skipped + 1]
  ELSE [st EXCEPT !.failed = st.failed + 1]

\* lines 376-385: sync_topic has returned; count, and save every tenth and
\* the last record
MainCount ==
  /\ main.pc = "loop"
  /\ th[1].pc = "st_return"
  /\ stats' = Counted(stats, th[1].result, IsSynced(synced_topics, Key(th[1].topic)))
  /\ th' = [th EXCEPT ![1] = IdleThread]
  /\ main' = IF main.i % SavePeriod = 0 \/ main.i = stats.total
             THEN EnterSave(main, "loop", "crashed")
             ELSE main
  /\ UNCHANGED <<textVars, procVars, storeVars, files, wp_posts, sync_lock, topics, done,
                 clock>>

\* lines 387-392: update_last_sync_time, add_sync_record, save
MainFinish ==
  /\ main.pc = "loop"
  /\ th[1].pc = "idle"
  /\ main.i = stats.total
  /\ last_sync_time' = clock
  /\ sync_history' = AddSyncRecord(sync_history, stats, clock)
  /\ clock' = clock
  /\ main' = [EnterSave(main, "done", "crashed") EXCEPT !.i = main.i + 1]
  /\ UNCHANGED <<textVars, procVars, synced_topics, files, wp_posts, sync_lock, th, topics,
                 stats, done>>

Next ==
  \/ Construct
  \/ ClearAll
  \/ StartSyncFull
  \/ StartSyncIncremental
  \/ MainCallSyncTopic
  \/ SyncTopicCheck(1)
  \/ SyncTopicDetail(1)
  \/ SyncTopicProcess(1)
  \/ SyncTopicExists(1)
  \/ SyncTopicMarkDuplicate(1)
  \/ SyncTopicImages(1)
  \/ SyncTopicPublish(1)
  \/ SyncTopicMark(1)
  \/ MainCount
  \/ SaveOpen
  \/ SaveDump
  \/ SaveReplace
  \/ MainFinish

Spec == Init /\ [][Next]_vars

\* ------------------------------------------- concurrent sync: a worker pool
MainThread == MaxWorkers + 1

\* the records of the run: enough for one periodic save while two more
\* records are in the hands of workers
ConcTopicCount == SavePeriod + 2

ConcFetches ==
  {FetchAllTargetTopics(a, c) :
     a \in {TargetAll(ConcTopicCount), <<>>}, c \in {TargetColumn(ConcTopicCount), <<>>}}

(* An earlier run without a failure of the network or of the disk: what   *)
(* sync_topic does for one record, on the synced_topics, posts and counters *)
(* that the records before it have left.                                   *)
EarlierStep(before, topic) ==
  LET article == ApplyCategoryOverride(ProcessTopic(topic, DefaultConfig, <<>>).out, topic)
      final == FormatArticleWithImages(article, <<>>)
  IN IF article.raised \/ final.raised
     THEN [before EXCEPT !.stats = Counted(before.stats, FALSE, FALSE)]
     ELSE IF PostExists(before.posts, article.title)
     THEN [before EXCEPT
             !.synced_topics = MarkSynced(before.synced_topics, Key(topic), "duplicate",
                                          article.title, article.create_time, 1),
             !.stats = Counted(before.stats, FALSE, TRUE)]
     ELSE [synced_topics |-> MarkSynced(before.synced_topics, Key(topic),
                                        ToString(Len(before.posts) + 1),
                                        article.title, article.create_time, 1),
           posts |-> Append(before.posts,
                            NewPost(ArticleForWp(article, final.content), Key(topic))),
           stats |-> Counted(before.stats, TRUE, TRUE)]

RECURSIVE EarlierRun(_, _)
EarlierRun(list, n) ==
  IF n = 0 THEN [synced_topics |-> <<>>, posts |-> <<>>, stats |-> NoStats]
  ELSE CHOOSE after \in {EarlierStep(before, list[n]) :
                           before \in {EarlierRun(list, n - 1)}} : TRUE

\* the earlier run saw the first SavePeriod records of today's list
Earlier ==
  EarlierRun(FetchAllTargetTopics(TargetAll(ConcTopicCount), TargetColumn(ConcTopicCount)),
             SavePeriod)

\* the state that the earlier run saved when it ended
EarlierState(earlier) ==
  [synced_topics |-> earlier.synced_topics, last_sync_time |-> 1,
   sync_history |-> <<[stats |-> [earlier.stats EXCEPT !.total = SavePeriod],
                       timestamp |-> 1]>>]

(* main() with --mode concurrent: the process is built on the state file   *)
(* that the earlier run saved.                                             *)
ConcInit ==
  /\ TextIdle
  /\ config = DefaultConfig
  /\ title_source_line = <<>>
  /\ proc = <<>>
  /\ \E earlier \in {Earlier} :
       \E state \in {EarlierState(earlier)} :
         \E doc \in {JsonDump(state)} :
           /\ synced_topics = state.synced_topics
           /\ last_sync_time = state.last_sync_time
           /\ sync_history = state.sync_history
           /\ files = [p \in Paths |-> IF p = StateFile
                                       THEN [exists |-> TRUE, data |-> doc]
                                       ELSE NoFile]
           /\ wp_posts = earlier.posts
  /\ sync_lock = NoHolder
  /\ th = [w \in 1..MaxWorkers |-> IdleThread]
  /\ main = [IdleMain EXCEPT !.pc = "ready", !.runs = 1]
  /\ topics = <<>> /\ stats = NoStats /\ done = {} /\ clock = 2

\* sync_full_concurrent, lines 516-537: fetch, then submit every record
StartSyncConcurrent ==
  /\ main.pc = "ready"
  /\ \E fetched \in ConcFetches :
       /\ topics' = fetched
       /\ stats' = [NoStats EXCEPT !.total = Len(fetched)]
  /\ main' = [main EXCEPT !.pc = "wait", !.i = 0, !.next = 0]
  /\ done' = {}
  /\ UNCHANGED <<textVars, procVars, storeVars, files, wp_posts, sync_lock, th, clock>>

\* a free worker of the pool takes the oldest task of the queue
WorkerTake(w) ==
  /\ main.pc \notin {"fresh", "ready", "done", "crashed"}
  /\ th[w].pc = "idle"
  /\ main.next < stats.total
  /\ main' = [main EXCEPT !.next = main.next + 1]
  /\ th' = [th EXCEPT ![w] = NewCall("safe_lock", main.next + 1, topics[main.next + 1])]
  /\ UNCHANGED <<textVars, procVars, storeVars, files, wp_posts, sync_lock, topics, stats,
                 done, clock>>

\* sync_topic_safe, line 480: with self._sync_lock
SafeAcquire(w) ==
  /\ th[w].pc = "safe_lock"
  /\ sync_lock = NoHolder
  /\ sync_lock' = w
  /\ th' = [th EXCEPT ![w].pc = "safe_check"]
  /\ UNCHANGED <<textVars, procVars, storeVars, files, wp_posts, main, topics, stats, done,
                 clock>>

(* sync_topic_safe, lines 481-485: the check under the lock.  A record     *)
(* that is synced is counted as skipped and the call returns; otherwise    *)
(* the lock is released and sync_topic is called (line 488).               *)
SafeCheck(w) ==
  /\ th[w].pc = "safe_check"
  /\ sync_lock' = NoHolder
  /\ IF IsSynced(synced_topics, Key(th[w].topic))
     THEN /\ stats' = [stats EXCEPT !.skipped = stats.skipped + 1]
          /\ done' = done \cup {th[w].idx}
          /\ th' = [th EXCEPT ![w] = IdleThread]
     ELSE /\ th' = [th EXCEPT ![w].pc = "st_check"]
          /\ UNCHANGED <<stats, done>>
  /\ UNCHANGED <<textVars, procVars, storeVars, files, wp_posts, main, topics, clock>>

\* sync_topic_safe, lines 491-500: count under the stats lock and return;
\* the future is done
SafeCount(w) ==
  /\ th[w].pc = "st_return"
  /\ main.pc \notin {"loop"}
  /\ stats' = Counted(stats, th[w].result, IsSynced(synced_topics, Key(th[w].topic)))
  /\ done' = done \cup {th[w].idx}
  /\ th' = [th EXCEPT ![w] = IdleThread]
  /\ UNCHANGED <<textVars, procVars, storeVars, files, wp_posts, sync_lock, main, topics,
                 clock>>

\* lines 540-549: future.result() of the next future in submission order
MainResult ==
  /\ main.pc = "wait"
  /\ main.i < stats.total
  /\ (main.i + 1) \in done
  /\ main' = [main EXCEPT !.i = main.i + 1,
                          !.pc = IF (main.i + 1) % SavePeriod = 0 THEN "lock_wait"
                                 ELSE "wait",
                          !.saved = "none"]
  /\ UNCHANGED <<textVars, procVars, storeVars, files, wp_posts, sync_lock, th, topics,
                 stats, done, clock>>

\* lines 550-551: with self._sync_lock: self.sync_state.save()
MainAcquire ==
  /\ main.pc = "lock_wait"
  /\ sync_lock = NoHolder
  /\ sync_lock' = MainThread
  /\ main' = EnterSave(main, "unlock", "unlock")
  /\ UNCHANGED <<textVars, procVars, storeVars, files, wp_posts, th, topics, stats, done,
                 clock>>

\* the with block is left, by return or by the SyncStateError that line 553
\* catches
MainRelease ==
  /\ main.pc = "unlock"
  /\ sync_lock' = NoHolder
  /\ main' = [main EXCEPT !.pc = "wait"]
  /\ UNCHANGED <<textVars, procVars, storeVars, files, wp_posts, th, topics, stats, done,
                 clock>>

\* lines 556-561, after the pool has shut down: update_last_sync_time,
\* add_sync_record, save
MainFinishConcurrent ==
  /\ main.pc = "wait"
  /\ main.i = stats.total
  /\ \A w \in DOMAIN th : th[w].pc = "idle"
  /\ last_sync_time' = clock
  /\ sync_history' = AddSyncRecord(sync_history, stats, clock)
  /\ main' = EnterSave(main, "done", "crashed")
  /\ UNCHANGED <<textVars, procVars, synced_topics, files, wp_posts, sync_lock, th, topics,
                 stats, done, clock>>

ConcNext ==
  \/ StartSyncConcurrent
  \/ \E w \in DOMAIN th : WorkerTake(w)
  \/ \E w \in DOMAIN th : SafeAcquire(w)
  \/ \E w \in DOMAIN th : SafeCheck(w)
  \/ \E w \in DOMAIN th : SyncTopicCheck(w)
  \/ \E w \in DOMAIN th : SyncTopicDetail(w)
  \/ \E w \in DOMAIN th : SyncTopicProcess(w)
  \/ \E w \in DOMAIN th : SyncTopicExists(w)
  \/ \E w \in DOMAIN th : SyncTopicMarkDuplicate(w)
  \/ \E w \in DOMAIN th : SyncTopicImages(w)
  \/ \E w \in DOMAIN th : SyncTopicPublish(w)
  \/ \E w \in DOMAIN th : SyncTopicMark(w)
  \/ \E w \in DOMAIN th : SafeCount(w)
  \/ MainResult
  \/ MainAcquire
  \/ SaveOpen
  \/ SaveDump
  \/ SaveReplace
  \/ MainRelease
  \/ MainFinishConcurrent

SpecConc == ConcInit /\ [][ConcNext]_vars

\* ==================================================== client operations
\* a dict with key set to value
DictSet(d, key, value) ==
  [k \in DOMAIN d \cup {key} |-> IF k = key THEN value ELSE d[k]]

\* ------------------------------------------------------ process_images_batch
\* process_images_batch, line 216: max_workers: int = 3
RelayWorkers == 3

BatchUrls == {"u1", "u2"}

(* What one process_image call meets: the download fails (download_image   *)
(* returns None), the upload fails (upload_image returns None), both       *)
(* succeed, or an exception escapes process_image itself.                  *)
ImageOutcomes == {"ok", "download_failed", "upload_failed", "raised"}

ProcessImageMut(image_url, outcome) ==
  IF outcome = "raised" THEN [raised |-> TRUE, url |-> image_url]
  ELSE IF outcome = "download_failed" THEN [raised |-> FALSE, url |-> image_url]
  ELSE [raised |-> FALSE, url |-> Relayed(image_url)]

\* process_image, lines 160-188
ProcessImage(image_url, outcome) ==
  IF outcome = "raised" THEN [raised |-> TRUE, url |-> image_url]
  ELSE IF outcome = "download_failed" THEN [raised |-> FALSE, url |-> image_url]
  ELSE IF outcome = "ok" THEN [raised |-> FALSE, url |-> Relayed(image_url)]
  ELSE [raised |-> FALSE, url |-> image_url]

\* process_single, lines 232-239: the pair (url, new_url)
ProcessSingle(url, outcome) ==
  LET processed == ProcessImage(url, outcome)
  IN IF processed.raised THEN <<url, url>> ELSE <<url, processed.url>>

BatchCases ==
  {[fn |-> "batch", image_urls |-> us, outcomes |-> os, max_workers |-> w] :
     us \in SeqsUpTo(BatchUrls, MaxImages), os \in SeqsUpTo(ImageOutcomes, MaxImages),
     w \in {1, RelayWorkers}}

BatchInit ==
  /\ tCase \in {c \in BatchCases : Len(c.image_urls) = Len(c.outcomes)}
  /\ tOut = <<>>
  /\ call = [op |-> "batch", pc |-> "called", futures |-> <<>>, result_map |-> <<>>]
  /\ ProcIdle /\ SyncIdle

\* lines 226-227 and 242-244: nothing to do, or every url is submitted
BatchSubmit ==
  /\ call.op = "batch" /\ call.pc = "called"
  /\ call' = IF tCase.image_urls = <<>>
             THEN [call EXCEPT !.pc = "returned"]
             ELSE [call EXCEPT !.pc = "collecting",
                               !.futures = [i \in 1..Len(tCase.image_urls) |->
                                              [state |-> "queued", result |-> <<>>]]]
  /\ UNCHANGED <<tCase, tOut, procVars, syncVars>>

\* a free worker of the pool takes the oldest queued task
WorkerStart(i) ==
  /\ call.op = "batch" /\ call.pc = "collecting"
  /\ call.futures[i].state = "queued"
  /\ \A j \in 1..(i - 1) : call.futures[j].state # "queued"
  /\ Cardinality({j \in DOMAIN call.futures : call.futures[j].state = "running"})
       < tCase.max_workers
  /\ call' = [call EXCEPT !.futures[i].state = "running"]
  /\ UNCHANGED <<tCase, tOut, procVars, syncVars>>

\* process_single returns in its worker
WorkerFinish(i) ==
  /\ call.op = "batch" /\ call.pc = "collecting"
  /\ call.futures[i].state = "running"
  /\ call' = [call EXCEPT !.futures[i] =
                [state |-> "finished",
                 result |-> ProcessSingle(tCase.image_urls[i], tCase.outcomes[i])]]
  /\ UNCHANGED <<tCase, tOut, procVars, syncVars>>

\* lines 247-251: as_completed hands over a finished future
Collect(i) ==
  /\ call.op = "batch" /\ call.pc = "collecting"
  /\ call.futures[i].state = "finished"
  /\ call' = [call EXCEPT !.futures[i].state = "collected",
                          !.result_map = DictSet(call.result_map,
                                                 call.futures[i].result[1],
                                                 call.futures[i].result[2])]
  /\ UNCHANGED <<tCase, tOut, procVars, syncVars>>

\* line 258: return result_map
BatchReturn ==
  /\ call.op = "batch" /\ call.pc = "collecting"
  /\ \A i \in DOMAIN call.futures : call.futures[i].state = "collected"
  /\ call' = [call EXCEPT !.pc = "returned"]
  /\ UNCHANGED <<tCase, tOut, procVars, syncVars>>

BatchNext ==
  \/ BatchSubmit
  \/ \E i \in 1..Len(tCase.image_urls) : WorkerStart(i)
  \/ \E i \in 1..Len(tCase.image_urls) : WorkerFinish(i)
  \/ \E i \in 1..Len(tCase.image_urls) : Collect(i)
  \/ BatchReturn

SpecBatch == BatchInit /\ [][BatchNext]_vars

\* ------------------------------------------------------------ add_sync_record
\* the records that the callers hand to add_sync_record
HistoryRecords ==
  {[NoStats EXCEPT !.total = 1, !.success = 1], [NoStats EXCEPT !.total = 1, !.failed = 1]}

HistoryInit ==
  /\ tCase = TextCase("none", NoTopic, <<>>, <<>>, <<>>, NoArticle, <<>>)
  /\ tOut = <<>>
  /\ call = [op |-> "history", added |-> <<>>]
  /\ ProcIdle /\ SyncIdle

\* one call add_sync_record(record); call.added is the log of the calls
AddRecord(record) ==
  /\ call.op = "history"
  /\ Len(call.added) < MaxRecords
  /\ clock' = clock + 1
  /\ sync_history' = AddSyncRecord(sync_history, record, clock')
  /\ call' = [call EXCEPT !.added = Append(@, [stats |-> record, timestamp |-> clock'])]
  /\ UNCHANGED <<tCase, tOut, procVars, synced_topics, last_sync_time, files, wp_posts,
                 sync_lock, th, main, topics, stats, done>>

HistoryNext == \E record \in HistoryRecords : AddRecord(record)

SpecHistory == HistoryInit /\ [][HistoryNext]_vars

\* ------------------------------------------------------------ get_all_topics
(* The source serves its topics newest first.  Topic i of a source of n    *)
(* topics was created at time n + 1 - i; its create_time string is "isoZ", *)
(* except for at most one topic whose create_time is "" (missing) or "bad" *)
(* (text that datetime.fromisoformat rejects).  In the frame of a call,    *)
(* seen is the log of the topics that get_topics has returned, last_page   *)
(* the last page of them, requests and errors count the get_topics calls   *)
(* and those of them that raised.  None is written 0 for                   *)
(* end_time and max_topics; since tells whether a start_time is given.    *)
CountCap == 50
PageFloor == 20
PageRetries == 3

NoOdd == [at |-> 0, kind |-> "isoZ"]

Served(n, odd) ==
  [i \in 1..n |-> [topic_id |-> i, time |-> n + 1 - i,
                   create_time |-> IF odd.at = i THEN odd.kind ELSE "isoZ"]]

Min2(a, b) == IF a < b THEN a ELSE b
Max2(a, b) == IF a > b THEN a ELSE b

\* get_topics, lines 169-198: at most min(count, 50) topics older than end_time
GetTopics(served, count, end_time) ==
  LET older == SelectSeq(served, LAMBDA t : end_time = 0 \/ t.time < end_time)
  IN SubSeq(older, 1, Min2(Min2(count, CountCap), Len(older)))

\* lines 225-232: whether the loop goes on, and with which batch size
BatchSize(batch_size, max_topics, fetched) ==
  IF max_topics # 0 /\ fetched >= max_topics THEN 0
  ELSE IF max_topics = 0 THEN Max2(PageFloor, batch_size)
  ELSE LET remaining == max_topics - fetched
       IN IF remaining >= PageFloor THEN Max2(PageFloor, Min2(batch_size, remaining))
          ELSE remaining

\* lines 265-267: the comparison raises ValueError or TypeError
CompareRaises(topic) ==
  ~FromIsoFormatOk(ReplaceZ(topic.create_time)) \/ topic.create_time = "iso"

FirstOldMut(page, start_time) ==
  LET hits == {i \in 1..Len(page) :
                 page[i].create_time # "" /\ page[i].time < start_time}
  IN IF hits = {} THEN 0 ELSE CHOOSE i \in hits : \A j \in hits : i <= j

\* lines 263-282: the first topic of the page at which the loop stops, which
\* is one that cannot be compared or that is not newer than start_time; 0 if none
FirstOld(page, start_time) ==
  LET hits == {i \in 1..Len(page) :
                 /\ page[i].create_time # ""
                 /\ (CompareRaises(page[i]) \/ page[i].time <= start_time)}
  IN IF hits = {} THEN 0 ELSE CHOOSE i \in hits : \A j \in hits : i <= j

PagerCases ==
  {[fn |-> "pager", n |-> n, odd |-> odd, batch_size |-> b, since |-> st[1],
    start_time |-> st[2], max_topics |-> mt] :
     n \in 0..MaxSource,
     odd \in {NoOdd} \cup [at : {1, PageFloor}, kind : {"", "bad"}],
     b \in {1, PageFloor, PageFloor + 1, CountCap, CountCap + 1},
     st \in {<<FALSE, 0>>, <<TRUE, 0>>, <<TRUE, 2>>, <<TRUE, MaxSource - 1>>},
     mt \in {0, PageFloor + 5}}

PagerInit ==
  /\ tCase \in PagerCases
  /\ tOut = <<>>
  /\ call = [op |-> "pager", pc |-> "loop", all_topics |-> <<>>, end_time |-> 0,
             retry_attempt |-> 0, seen |-> <<>>, last_page |-> <<>>, requests |-> 0,
             errors |-> 0]
  /\ ProcIdle /\ SyncIdle

PagerServed == Served(tCase.n, tCase.odd)

\* lines 223-232: the loop ends before a request
PagerBreak ==
  /\ call.op = "pager" /\ call.pc = "loop"
  /\ BatchSize(tCase.batch_size, tCase.max_topics, Len(call.all_topics)) <= 0
  /\ call' = [call EXCEPT !.pc = "returned"]
  /\ UNCHANGED <<tCase, tOut, procVars, syncVars>>

(* lines 236-253: get_topics raises ZsxqAPIError.  An error of code 1059   *)
(* is retried twice and then ends the call with the page fetched so far; *)
(* any other error is raised.                                              *)
PagerError(paging_error) ==
  /\ call.op = "pager" /\ call.pc = "loop"
  /\ BatchSize(tCase.batch_size, tCase.max_topics, Len(call.all_topics)) > 0
  /\ LET got == [call EXCEPT !.requests = @ + 1, !.errors = @ + 1]
     IN call' = IF ~paging_error THEN [got EXCEPT !.pc = "raised"]
                ELSE IF call.retry_attempt < PageRetries - 1
                THEN [got EXCEPT !.retry_attempt = @ + 1]
                ELSE [got EXCEPT !.pc = "returned"]
  /\ UNCHANGED <<tCase, tOut, procVars, syncVars>>

\* lines 239 and 255-295: get_topics returns a page, which is processed
PagerPage ==
  /\ call.op = "pager" /\ call.pc = "loop"
  /\ LET current_batch_size ==
           BatchSize(tCase.batch_size, tCase.max_topics, Len(call.all_topics))
         page == GetTopics(PagerServed, current_batch_size, call.end_time)
         got == [call EXCEPT !.retry_attempt = 0, !.requests = @ + 1,
                             !.seen = @ \o page, !.last_page = page]
         old == IF ~tCase.since THEN 0
                ELSE FirstOld(page, tCase.start_time)
     IN /\ current_batch_size > 0
        /\ call' =
             IF page = <<>> THEN [got EXCEPT !.pc = "returned"]
             ELSE IF old # 0
             THEN IF CompareRaises(page[old]) THEN [got EXCEPT !.pc = "raised"]
                  ELSE [got EXCEPT !.pc = "returned",
                                   !.all_topics = @ \o SubSeq(page, 1, old - 1)]
             ELSE IF Len(page) < tCase.batch_size
                     \/ page[Len(page)].create_time = ""
             THEN [got EXCEPT !.pc = "returned", !.all_topics = @ \o page]
             ELSE [got EXCEPT !.all_topics = @ \o page,
                              !.end_time = page[Len(page)].time]
  /\ UNCHANGED <<tCase, tOut, procVars, syncVars>>

PagerNext ==
  \/ PagerBreak
  \/ \E paging_error \in BOOLEAN : PagerError(paging_error)
  \/ PagerPage

SpecPager == PagerInit /\ [][PagerNext]_vars

\* ------------------------------------------------------------- _make_request
(* What one HTTP attempt meets:                                            *)
(*   "ok"          status 200, a body without code 401 and not failed      *)
(*   "auth_body"   status 200, a body with code 401                        *)
(*   "api_error"   status 200, a body with succeeded false                 *)
(*   "bad_json"    status 200, a body that response.json() rejects         *)
(*   "401"         status 401                                              *)
(*   "429"         status 429                                              *)
(*   "http_error"  another status for which raise_for_status raises        *)
(*   "no_error"    another status for which raise_for_status returns       *)
(*   "transport"   session.request raises a RequestException               *)
Attempts ==
  {"ok", "auth_body", "api_error", "bad_json", "401", "429", "http_error", "no_error",
   "transport"}

\* line 112: the exponential backoff stops at 60 seconds
BackoffCap == 60

HandleMut(outcome, retry_delay, json_error_is_request_exception) ==
  CASE outcome = "ok" -> [then |-> "return", error |-> "none", retry_delay |-> retry_delay]
    [] outcome \in {"auth_body", "api_error"} ->
         [then |-> "raise", error |-> "ZsxqAPIError", retry_delay |-> retry_delay]
    [] outcome = "bad_json" /\ ~json_error_is_request_exception ->
         [then |-> "raise", error |-> "ValueError", retry_delay |-> retry_delay]
    [] outcome = "429" -> [then |-> "retry", error |-> "none", retry_delay |-> retry_delay * 2]
    [] outcome = "no_error" ->
         [then |-> "retry", error |-> "none", retry_delay |-> retry_delay]
    [] OTHER -> [then |-> "retry", error |-> "none",
                 retry_delay |-> Min2(retry_delay * 2, BackoffCap)]

(* lines 75-112: one pass of the loop body.  The JSONDecodeError of        *)
(* response.json() is a RequestException in some releases of requests and  *)
(* a plain ValueError in the others.                                       *)
Handle(outcome, retry_delay, json_error_is_request_exception) ==
  CASE outcome = "ok" -> [then |-> "return", error |-> "none", retry_delay |-> retry_delay]
    [] outcome \in {"auth_body", "api_error", "401"} ->
         [then |-> "raise", error |-> "ZsxqAPIError", retry_delay |-> retry_delay]
    [] outcome = "bad_json" /\ ~json_error_is_request_exception ->
         [then |-> "raise", error |-> "ValueError", retry_delay |-> retry_delay]
    [] outcome = "429" -> [then |-> "retry", error |-> "none", retry_delay |-> retry_delay * 2]
    [] outcome = "no_error" ->
         [then |-> "retry", error |-> "none", retry_delay |-> retry_delay]
    [] OTHER -> [then |-> "retry", error |-> "none",
                 retry_delay |-> Min2(retry_delay * 2, BackoffCap)]

RequestInit ==
  /\ tCase \in {[fn |-> "request", max_retries |-> m] : m \in 0..MaxRetries}
  /\ tOut = <<>>
  /\ call = [op |-> "request", pc |-> "loop", log |-> <<>>, retry_delay |-> 1,
             error |-> "none"]
  /\ ProcIdle /\ SyncIdle

\* one pass of the for loop of line 74; call.log is the log of the attempts
Attempt(outcome, json_error_is_request_exception) ==
  /\ call.op = "request" /\ call.pc = "loop"
  /\ Len(call.log) < tCase.max_retries
  /\ LET h == Handle(outcome, call.retry_delay, json_error_is_request_exception)
     IN call' = [call EXCEPT !.log = Append(@, outcome),
                             !.retry_delay = h.retry_delay,
                             !.error = h.error,
                             !.pc = CASE h.then = "return" -> "returned"
                                      [] h.then = "raise" -> "raised"
                                      [] OTHER -> "loop"]
  /\ UNCHANGED <<tCase, tOut, procVars, syncVars>>

\* line 114: the loop has ended
Exhausted ==
  /\ call.op = "request" /\ call.pc = "loop"
  /\ Len(call.log) >= tCase.max_retries
  /\ call' = [call EXCEPT !.pc = "raised", !.error = "ZsxqAPIError"]
  /\ UNCHANGED <<tCase, tOut, procVars, syncVars>>

RequestNext ==
  \/ \E outcome \in Attempts, j \in BOOLEAN : Attempt(outcome, j)
  \/ Exhausted

SpecRequest == RequestInit /\ [][RequestNext]_vars

\* ------------------------------ incremental runs against a growing source
(* The source platform with its clock.  call.created[i] is the time at     *)
(* which record i was created; the create_time of a record is a string     *)
(* with a trailing Z that stands for that time.  The source serves the     *)
(* newest record first.  call.fetched is the log of the runs: the ids of   *)
(* the records that each run has fetched, and whether a request failed.    *)
TimedRecord(i) ==
  [Catalog(i) EXCEPT !.create_time = "isoZ"] @@ [time |-> call.created[i]]

TimedAll ==
  LET n == Len(call.created) IN [k \in 1..n |-> TimedRecord(n + 1 - k)]

TimedColumn ==
  LET odd == SelectSeq(TimedAll, LAMBDA r : r.topic_id % 2 = 1)
  IN [k \in 1..Len(odd) |-> [odd[k] EXCEPT !.category_override = ColumnCategory]]

\* get_all_topics and get_all_topics_by_column on a source of one page:
\* the list up to the first record that is not newer than start_time
NewerThan(served, since, start_time) ==
  LET old == IF since THEN FirstOld(served, start_time) ELSE 0
  IN IF old = 0 THEN served ELSE SubSeq(served, 1, old - 1)

\* _fetch_all_target_topics(start_time): a target whose request fails with
\* ZsxqAPIError is passed over (lines 344-346)
TimedFetches(since, start_time) ==
  {[list |-> FetchAllTargetTopics(IF a THEN NewerThan(TimedAll, since, start_time) ELSE <<>>,
                                  IF c THEN NewerThan(TimedColumn, since, start_time)
                                  ELSE <<>>),
    ok |-> a /\ c] : a \in BOOLEAN, c \in BOOLEAN}

TimedInit ==
  /\ tCase = TextCase("none", NoTopic, <<>>, <<>>, <<>>, NoArticle, <<>>)
  /\ tOut = <<>>
  /\ call = [op |-> "source", created |-> <<>>, fetched |-> <<>>]
  /\ config = DefaultConfig
  /\ title_source_line = <<>>
  /\ proc = <<>>
  /\ synced_topics = <<>> /\ last_sync_time = 0 /\ sync_history = <<>>
  /\ files = [p \in Paths |-> NoFile]
  /\ wp_posts = <<>>
  /\ sync_lock = NoHolder
  /\ th = [t \in {1} |-> IdleThread]
  /\ main = IdleMain
  /\ topics = <<>> /\ stats = NoStats /\ done = {} /\ clock = 0

\* a member of the group posts a record while no run is in progress
PublishTopic ==
  /\ call.op = "source"
  /\ main.pc \in {"fresh", "done", "crashed"}
  /\ Len(call.created) < MaxTopics
  /\ clock' = clock + 1
  /\ call' = [call EXCEPT !.created = Append(@, clock')]
  /\ UNCHANGED <<tCase, tOut, procVars, storeVars, files, wp_posts, sync_lock, th, main,
                 topics, stats, done>>

\* sync_incremental, lines 403-433, and sync_full, lines 353-369, to which it
\* falls back when there is no last sync time
StartTimed ==
  /\ call.op = "source"
  /\ main.pc = "ready"
  /\ \E f \in TimedFetches(last_sync_time # 0, last_sync_time) :
       /\ call' = [call EXCEPT !.fetched =
                     Append(@, [ids |-> {Key(f.list[i]) : i \in 1..Len(f.list)},
                                ok |-> f.ok, since |-> last_sync_time])]
       /\ IF last_sync_time # 0 /\ f.list = <<>>
          THEN /\ main' = [main EXCEPT !.pc = "done"]
               /\ UNCHANGED <<topics, stats>>
          ELSE /\ topics' = f.list
               /\ stats' = [NoStats EXCEPT !.total = Len(f.list)]
               /\ main' = [main EXCEPT !.pc = "loop", !.i = 0]
  /\ UNCHANGED <<tCase, tOut, procVars, storeVars, files, wp_posts, sync_lock, th, done,
                 clock>>

TimedNext ==
  \/ PublishTopic
  \/ Construct
  \/ StartTimed
  \/ MainCallSyncTopic
  \/ SyncTopicCheck(1)
  \/ SyncTopicDetail(1)
  \/ SyncTopicProcess(1)
  \/ SyncTopicExists(1)
  \/ SyncTopicMarkDuplicate(1)
  \/ SyncTopicImages(1)
  \/ SyncTopicPublish(1)
  \/ SyncTopicMark(1)
  \/ MainCount
  \/ SaveOpen
  \/ SaveDump
  \/ SaveReplace
  \/ MainFinish

SpecTimed == TimedInit /\ [][TimedNext]_vars

\* ==================================================================== claims

\* C4: a created_at that is missing or cannot be parsed aborts neither title
\* synthesis on an empty body (it yields the placeholder title) nor
\* format_article_with_images (it still returns a body).
C4_NoAbort ==
  /\ (tCase.fn = "title" /\ tOut # <<>>
        /\ Strip(TopicText(tCase.topic)) = <<>>
        /\ ~ParseDatetimeSafeOk(tCase.topic.create_time))
     => (~tOut[1].raised /\ tOut[1].title = PlaceholderTitle)
  /\ (tCase.fn = "format" /\ tOut # <<>>
        /\ ~ParseDatetimeSafeOk(tCase.article.create_time))
     => ~tOut[1].raised

\* C9: _remove_title_duplication applied to its own output, with the same
\* title and source line, returns that output unchanged.
C9_Idempotent ==
  (tCase.fn = "remove" /\ Len(tOut) = 2) => tOut[2] = tOut[1]

TitleDone == tCase.fn = "title" /\ tOut # <<>> /\ ~tOut[1].raised
BeforeEllipsis(title) == RStripSet(title, {"ellipsis"})

\* C10 as stated: a first-line title has at most 50 characters when used
\* whole and at most 45 characters before the ellipsis when cut.
C10_Original ==
  TitleDone =>
    /\ tOut[1].path = "first_whole" => Len(tOut[1].title) <= 50
    /\ tOut[1].path = "first_cut" => Len(tOut[1].title) - 1 <= 45

\* C10 amended: a first-line title has at most 50 characters when used whole;
\* when cut it has at most 46 characters before the ellipsis, and 46 only
\* when the breakpoint sits at offset 45 and is one that is kept (full-width
\* comma, enumeration comma, dash or full-width dash).
C10_TitleBound ==
  TitleDone =>
    /\ tOut[1].path = "first_whole" => Len(tOut[1].title) <= 50
    /\ tOut[1].path = "first_cut" =>
         /\ tOut[1].title[Len(tOut[1].title)] = "ellipsis"
         /\ Len(tOut[1].title) - 1 <= 46
         /\ Len(tOut[1].title) - 1 = 46 =>
              tOut[1].title[46] \in {"fcomma", "dun", "-", "fdash"}

C10_Witness ==
  /\ TitleDone
  /\ tOut[1].path = "first_cut"
  /\ Len(tOut[1].title) - 1 = 46

\* the output of process_topic for the record on a processor that has
\* processed nothing else
OutputAlone(topic) == ProcessTopic(topic, config, <<>>).out

\* C5: on one processor, the output of process_topic for a record is the
\* same whatever records were processed before it.
C5_PureFunction ==
  \A t \in DOMAIN proc :
    proc[t].pc \in {"done", "raised"} => proc[t].out = OutputAlone(proc[t].topic)

\* C6: when two worker threads run process_topic on the shared processor with
\* two different records, each record's output equals its output when
\* processed alone, under every interleaving.
C6_ThreadSafe ==
  (DOMAIN proc = {1, 2} /\ proc[1].topic.topic_id # proc[2].topic.topic_id) =>
    \A t \in {1, 2} :
      proc[t].pc \in {"done", "raised"} => proc[t].out = OutputAlone(proc[t].topic)

\* a sync_topic call that has passed its is_synced check and has not yet
\* written or given up
BetweenCheckAndMark(w) ==
  th[w].pc \in {"st_check", "st_detail", "st_process", "st_exists", "st_duplicate",
                "st_images", "st_publish", "st_mark"}

PostsOf(id) == {i \in 1..Len(wp_posts) : wp_posts[i].source = id}

\* C1: in concurrent sync a worker holds the sync lock from its is_synced
\* check to its mark_synced write, and no source id is published twice.
C1_CriticalSection ==
  /\ \A w \in DOMAIN th : BetweenCheckAndMark(w) => sync_lock = w
  /\ \A i \in 1..Len(topics) : Cardinality(PostsOf(Key(topics[i]))) <= 1

EntriesKept ==
  \A k \in DOMAIN synced_topics :
    k \in DOMAIN synced_topics' /\ synced_topics'[k] = synced_topics[k]

CallsWordPress(t) ==
  th[t].pc \in {"st_exists", "st_publish"} /\ th'[t].pc # th[t].pc

\* C2: in the sequential modes every step but clear_all keeps every entry of
\* synced_topics as it is (a process that starts after a failed save has the
\* entries of the file), and no sync_topic call makes a request to WordPress
\* for an id that has an entry.
C2_NoRepublish ==
  [][/\ ClearAll \/ main.pc = "crashed" \/ EntriesKept
     /\ \A t \in DOMAIN th :
          CallsWordPress(t) => Key(th[t].topic) \notin DOMAIN synced_topics]_vars

C2_Witness ==
  /\ main.runs >= 2
  /\ th[1].pc = "st_return"
  /\ th[1].synced_at_entry
  /\ synced_topics[Key(th[1].topic)].wordpress_id # "duplicate"

Returned(t) == th[t].pc = "st_return" /\ ~th[t].synced_at_entry

NoEntry(t) == Key(th[t].topic) \notin DOMAIN synced_topics

InSave == main.pc \in {"save_open", "save_dump", "save_replace"}

\* C7: in concurrent sync no thread writes synced_topics while save runs:
\* the state that json.dump serializes is the state as it was when the
\* temporary file was opened.
C7_SaveExclusive ==
  main.pc \in {"save_dump", "save_replace"} => synced_topics = main.snap.synced_topics

\* C8: while save runs, and after it has failed, the state file is what it
\* was before; it is always a complete document; after a successful save it
\* is the document of the state, and loading it gives the same synced_topics.
C8_AtomicSave ==
  /\ LoadState(files[StateFile]).ok
  /\ InSave => files[StateFile] = main.prev
  /\ main.saved = "failed" => files[StateFile] = main.prev
  /\ main.saved = "ok" =>
       /\ files[StateFile] = [exists |-> TRUE, data |-> JsonDump(CurrentState)]
       /\ LoadState(files[StateFile]).state.synced_topics = synced_topics

C8_Witness ==
  /\ main.saved = "ok"
  /\ main.prev.exists
  /\ main.prev # files[StateFile]
  /\ synced_topics # <<>>

\* --------------------------------------------- claims on the extractors
Applied(fn) == tCase.fn = fn /\ tOut # <<>>

\* a column, featured or pinned category was produced for the record
CategoryProduced(topic) == topic.column # "" \/ topic.digested \/ topic.sticky

C12_TitleNotEmpty ==
  (Applied("process") /\ ~tOut[1].out.raised) => tOut[1].out.title # <<>>

\* C13: when the record carries a non-empty explicit title, _generate_title
\* returns that title, whatever the kind of the record and whichever payload
\* holds its text.
C13_ExplicitTitleWins ==
  (Applied("title") /\ tCase.topic.title # <<>>) =>
    ~tOut[1].raised /\ tOut[1].title = tCase.topic.title

\* the lines of the body after the first, as one text
AfterFirstLine(text) == Strip(JoinLines(Tail(SplitOn(Strip(text), {"\n"}))))

\* the process_topic call took the article path and its title came from the
\* first line of the body
FirstLinePath ==
  /\ Applied("process")
  /\ DetermineContentType(tCase.topic) = "article"
  /\ tCase.config.article_sync_title
  /\ GenerateTitle(tCase.topic, tCase.line).path \in {"first_whole", "first_cut"}

ClassOf(topic) ==
  IF topic.type = "talk" /\ topic.article THEN "article"
  ELSE IF topic.type = "talk" THEN "short_content"
  ELSE IF topic.type \in {"q&a-question", "q&a-answer"} THEN "article"
  ELSE IF topic.type = "article" THEN "article"
  ELSE "short_content"

\* C15: _determine_content_type returns article or short_content, by the
\* priority order talk with talk.article, talk without it, question or
\* answer, article, and short_content for every other record, a record
\* without a kind included.
C15_ContentType ==
  Applied("type") =>
    /\ tOut[1] \in {"article", "short_content"}
    /\ tOut[1] = ClassOf(tCase.topic)

\* the text has a hashtag that names the featured tag
FeaturedHashtag(text) ==
  \E i \in 1..(Len(text) - 2) :
    text[i] = "#" /\ text[i + 1] = "featured" /\ text[i + 2] = "#"

\* C16: the tags of a record marked featured contain the featured tag,
\* whatever its kind and text; the tags of a record not marked featured
\* contain it only if the text has it as a hashtag.
C16_FeaturedTag ==
  Applied("tags") =>
    /\ tCase.topic.digested => FeaturedTag \in tOut[1]
    /\ (~tCase.topic.digested /\ FeaturedTag \in tOut[1])
         => FeaturedHashtag(TopicText(tCase.topic))

\* the URL that an element of an images list stands for: large.url, else
\* original.url, else thumbnail.url, else the bare url, or the element itself
\* when it is an http string
HasSizeUrl(img, size) ==
  HasKey(img, size) /\ Get(img, size).t = "dict" /\ HasKey(Get(img, size), "url")

Chosen(img) ==
  IF img.t = "str" THEN (IF StartsWithHttp(img.s) THEN <<img.s>> ELSE <<>>)
  ELSE IF img.t # "dict" THEN <<>>
  ELSE IF HasSizeUrl(img, "large") THEN <<Get(Get(img, "large"), "url").s>>
  ELSE IF HasSizeUrl(img, "original") THEN <<Get(Get(img, "original"), "url").s>>
  ELSE IF HasSizeUrl(img, "thumbnail") THEN <<Get(Get(img, "thumbnail"), "url").s>>
  ELSE IF HasKey(img, "url") THEN <<Get(img, "url").s>>
  ELSE <<>>

RECURSIVE ChosenAll(_)
ChosenAll(list) == IF list = <<>> THEN <<>> ELSE Chosen(Head(list)) \o ChosenAll(Tail(list))

\* the URLs of the two images lists of the record are all in the result
AllFound == Range(ChosenAll(tCase.own) \o ChosenAll(tCase.sib)) \subseteq Range(tOut[1])

\* C17 as stated: every URL of an images list is returned, whatever keys and
\* list positions lie on the path to the list.
C17_Original == Applied("images") => AllFound

\* C17 amended: every URL of an images list is returned, whatever keys other
\* than 'images' and whatever list positions lie on the path to the list.
C17_Complete ==
  (Applied("images") /\ "images" \notin Range(tCase.path)) => AllFound

C17_Witness ==
  /\ Applied("images")
  /\ tCase.path = <<"talk", "[]", "article">>
  /\ tCase.own = <<Str("u1"), SizedImage("large", "uL")>>
  /\ tCase.sib = <<Str("u2")>>
  /\ Range(tOut[1]) = {"u1", "uL", "u2"}

\* C18: each element of an images list gives at most one URL, chosen as
\* large.url, else original.url, else thumbnail.url, else the bare url; the
\* URLs of a level's own images list come before those of its sibling
\* fields, in list order, and a URL that occurs twice is returned twice.
C18_ChoiceAndOrder ==
  (Applied("images") /\ "images" \notin Range(tCase.path)) =>
    tOut[1] = ChosenAll(tCase.own) \o ChosenAll(tCase.sib)

C18_Witness ==
  /\ Applied("images")
  /\ tCase.path = <<"talk">>
  /\ tCase.own = <<ImageDict("nourl", "url", "url", TRUE), Str("u1")>>
  /\ tCase.sib = <<Str("u1")>>
  /\ tCase.data.items[1].val.items[1].key = "files"
  /\ tOut[1] = <<"uO", "u1", "u1">>

\* C19: the column name attached to a record is among its categories exactly
\* when one is attached and enable_column_mapping is set.
C19_ColumnMapping ==
  Applied("categories") =>
    (tCase.topic.column \in Range(tOut[1])
       <=> (tCase.topic.column # "" /\ tCase.config.enable_column_mapping))

\* C20: a post that sync_topic has just created from a record with categories
\* and tags was submitted with all those categories and all those tags.
C20_TermsSubmitted ==
  \A t \in DOMAIN th :
    (th[t].pc = "st_mark" /\ th[t].article.categories # <<>> /\ th[t].article.tags # {})
      => \E i \in 1..Len(wp_posts) :
           /\ ToString(i) = th[t].wp_id
           /\ wp_posts[i].terms_names.category = th[t].article.categories
           /\ wp_posts[i].terms_names.post_tag = th[t].article.tags

\* ------------------------------------------------- claims on the image relay

\* C21 as stated: process_images_batch returns a map with one entry for each
\* distinct url of the list, and every url with a failed relay maps to itself.
C21_Original ==
  (call.op = "batch" /\ call.pc = "returned") =>
    /\ DOMAIN call.result_map = Range(tCase.image_urls)
    /\ \A i \in 1..Len(tCase.image_urls) :
         tCase.outcomes[i] # "ok" =>
           call.result_map[tCase.image_urls[i]] = tCase.image_urls[i]

\* C21 amended: process_images_batch returns a map with one entry for each
\* distinct url of the list; a url maps to itself or to the url of its copy,
\* and to itself when every relay of it failed.
C21_BestEffort ==
  (call.op = "batch" /\ call.pc = "returned") =>
    /\ DOMAIN call.result_map = Range(tCase.image_urls)
    /\ \A u \in Range(tCase.image_urls) :
         /\ call.result_map[u] \in {u, Relayed(u)}
         /\ (\A i \in 1..Len(tCase.image_urls) :
               tCase.image_urls[i] = u => tCase.outcomes[i] # "ok")
            => call.result_map[u] = u

C21_Witness ==
  /\ call.op = "batch" /\ call.pc = "returned"
  /\ tCase.image_urls = <<"u1", "u2", "u1">>
  /\ tCase.outcomes = <<"ok", "upload_failed", "download_failed">>
  /\ call.result_map = [u \in {"u1", "u2"} |-> IF u = "u1" THEN "q1" ELSE "u2"]

\* --------------------------------------------------- claims on the sync state

\* C22: after any sequence of add_sync_record calls, sync_history holds at
\* most 10 records: the most recently added ones, in the order of the calls.
C22_HistoryWindow ==
  call.op = "history" =>
    LET n == Len(call.added)
        kept == IF n > 10 THEN 10 ELSE n
    IN /\ Len(sync_history) <= 10
       /\ sync_history = SubSeq(call.added, n - kept + 1, n)

C22_Witness ==
  /\ call.op = "history"
  /\ Len(call.added) = 12
  /\ Len(sync_history) = 10
  /\ sync_history[1] = call.added[3]
  /\ sync_history[1].stats # sync_history[2].stats

\* ----------------------------------------------- claims on the source client

\* C23: with a start_time, get_all_topics returns no topic whose create_time
\* is at or before start_time: it returns the topics it has seen before the
\* first such topic, in source order, and has fetched no page after the one
\* that holds that topic.
C23_StopsAtStartTime ==
  (call.op = "pager" /\ call.pc = "returned" /\ tCase.since) =>
    LET old == {k \in 1..Len(call.seen) :
                  call.seen[k].create_time # "" /\ call.seen[k].time <= tCase.start_time}
    IN /\ \A i \in 1..Len(call.all_topics) :
            call.all_topics[i].create_time # ""
              => call.all_topics[i].time > tCase.start_time
       /\ \A k \in old :
            (\A j \in old : k <= j) =>
              /\ call.all_topics = SubSeq(call.seen, 1, k - 1)
              /\ k > Len(call.seen) - Len(call.last_page)

C23_Witness ==
  /\ call.op = "pager" /\ call.pc = "returned" /\ tCase.since
  /\ tCase.start_time = 2 /\ tCase.n = PageFloor + 5 /\ tCase.batch_size = PageFloor
  /\ tCase.odd = NoOdd /\ tCase.max_topics = 0
  /\ call.requests = 2 /\ call.errors = 0
  /\ Len(call.seen) = PageFloor + 5
  /\ Len(call.all_topics) = PageFloor + 3

\* C24: without start_time and max_topics, and with no failed request, the
\* list that get_all_topics returns is the list of all the topics of the
\* source, whatever the batch_size.
C24_AllServed ==
  (/\ call.op = "pager" /\ call.pc = "returned"
   /\ ~tCase.since /\ tCase.max_topics = 0 /\ tCase.odd = NoOdd
   /\ call.errors = 0)
    => call.all_topics = PagerServed

\* C25: _make_request makes at most max_retries HTTP attempts.  It returns on
\* the first successful response, raises ZsxqAPIError on the first
\* authentication failure or API-level error response, goes on to another
\* attempt after a transport error or a rate limit, and raises ZsxqAPIError
\* when max_retries attempts have been made without an end.
C25_Retry ==
  call.op = "request" =>
    LET n == Len(call.log)
        last == call.log[n]
        final == {"ok", "auth_body", "api_error", "401"}
    IN /\ n <= tCase.max_retries
       /\ \A i \in 1..(n - 1) : call.log[i] \notin final
       /\ (n > 0 /\ last = "ok") => call.pc = "returned"
       /\ (n > 0 /\ last \in {"auth_body", "api_error", "401"})
            => (call.pc = "raised" /\ call.error = "ZsxqAPIError")
       /\ (n > 0 /\ n < tCase.max_retries /\ last \in {"transport", "429", "http_error"})
            => call.pc = "loop"
       /\ call.pc = "returned" => (n > 0 /\ last = "ok")
       /\ (call.pc = "raised" /\ n > 0 /\ last \in {"transport", "429", "http_error"})
            => (n = tCase.max_retries /\ call.error = "ZsxqAPIError")
       /\ (call.pc = "loop" /\ n = tCase.max_retries) => ENABLED Exhausted

C25_Witness ==
  /\ call.op = "request" /\ call.pc = "raised" /\ call.error = "ZsxqAPIError"
  /\ tCase.max_retries = 3
  /\ call.log = <<"transport", "429", "http_error">>

\* ------------------------------------------------ claims on the orchestrator

\* C26: when post_exists answers true for a record that is not yet synced,
\* sync_topic creates no post, marks the record synced with 'duplicate' as
\* its post id and returns False; the run then adds the record to skipped
\* and not to failed.
C26_DuplicateSkipped ==
  [][LET k == Key(th[1].topic)
     IN /\ th[1].pc = "st_duplicate" =>
             /\ ~IsSynced(synced_topics, k)
             /\ th'[1].pc = "st_return" /\ ~th'[1].result
             /\ wp_posts' = wp_posts
             /\ IsSynced(synced_topics', k)
             /\ synced_topics'[k].wordpress_id = "duplicate"
        /\ (/\ th[1].pc = "st_return" /\ ~th[1].synced_at_entry
            /\ IsSynced(synced_topics, k)
            /\ synced_topics[k].wordpress_id = "duplicate") =>
             stats' = [stats EXCEPT !.skipped = stats.skipped + 1]]_vars

C26_Witness ==
  /\ th[1].pc = "idle"
  /\ stats.skipped = 1 /\ stats.failed = 1 /\ stats.success = 0
  /\ \E k \in DOMAIN synced_topics :
       /\ synced_topics[k].wordpress_id = "duplicate"
       /\ synced_topics[k].sync_time = clock

\* ------------------------------------------------ claims on the normalizers

\* C27: on a text without newline, what _process_topic_text returns is what
\* _process_content returns: one paragraph with the same inner text.
C27_SameInside ==
  (Applied("normalize") /\ tOut[1].article # <<>>) => tOut[1].short = tOut[1].article

\* C28: a record that a run has fetched and failed to sync has no entry in
\* synced_topics, and the next run, an incremental sync whose requests all
\* succeed, fetches it again.
C28_FailedRetried ==
  (/\ call.op = "source" /\ Len(call.fetched) = 2
   /\ call.fetched[2].since # 0 /\ call.fetched[2].ok
   /\ Len(sync_history) >= 1
   /\ sync_history[1].stats.total = Cardinality(call.fetched[1].ids)
   /\ sync_history[1].stats.failed >= 1
   /\ main.pc = "done")
    => \A k \in call.fetched[1].ids :
         ~IsSynced(synced_topics, k) => k \in call.fetched[2].ids

\* C29: the counters that a run hands to add_sync_record at its end add up
\* to its total, and while the pool of sync_full_concurrent works, success +
\* failed + skipped is the number of the records whose call has returned.
C29_CountersAddUp ==
  /\ \A i \in 1..Len(sync_history) :
       sync_history[i].stats.success + sync_history[i].stats.failed
         + sync_history[i].stats.skipped = sync_history[i].stats.total
  /\ main.pc \in {"wait", "lock_wait", "unlock"} =>
       /\ stats.success + stats.failed + stats.skipped = Cardinality(done)
       /\ done \subseteq 1..stats.total

C29_Witness ==
  /\ main.pc = "done"
  /\ Len(th) = MaxWorkers
  /\ Len(sync_history) = 2
  /\ sync_history[2].stats.total = ConcTopicCount
  /\ sync_history[2].stats.success >= 1
  /\ sync_history[2].stats.failed >= 1
  /\ sync_history[2].stats.skipped >= 1

\* C30: when title sync is disabled for short-form content and the title of
\* the record is blank, the post that sync_topic creates has the title " ",
\* not a generated default title.
C30_FlagReachesCreateTopic ==
  (/\ tCase.fn = "publish" /\ tOut # <<>>
   /\ ~tOut[1].raised
   /\ tOut[1].article.content_type = "short_content"
   /\ tOut[1].article.sync_title_disabled
   /\ Strip(tOut[1].article.title) = <<>>)
    => tOut[1].post.title = <<" ">>

=============================================================================
